---- MODULE Spec2Model ----
(***************************************************************************)
(* Model of the step sequencer of Midi-Calculator                          *)
(* (src/sequencer/sequencer.py, class StepSequencer).                      *)
(*                                                                         *)
(* Python dictionaries are objects held by reference.  self.patterns maps  *)
(* a channel to a pattern dictionary {step: step-dict}; the model keeps    *)
(* the pattern dictionaries in pattern_objs and lets patterns[channel] be  *)
(* a reference into it, so that two channels sharing one dictionary is a   *)
(* state the model can be in.  A step dictionary is referenced by exactly  *)
(* one slot of one pattern dictionary and, possibly, by the caller that    *)
(* got it from get_step: ret is the dictionary the caller holds and        *)
(* ret_ref names the slot, if any, that holds the very same object.        *)
(***************************************************************************)
EXTENDS Integers, Sequences, FiniteSets, TLC

\* ---------------------------------------------------------------- bounds
\* largest max_steps the constructor is called with
MaxStepsBound == 2
\* largest steps_per_bar the constructor is called with
MaxStepsPerBar == 3
\* number of playback threads alive at the same time
MaxThreads == 2
\* number of master clock threads alive at the same time
MaxClockThreads == 2
\* number of clock pulses handled between two resets of the counters
MaxPulses == 100
\* number of time steps of the clock's time source
MaxTimeSteps == 3
MaxClockPulses == 2
MaxSteadyPulses == 6
\* number of scale threads alive at the same time
MaxScaleThreads == 2
\* largest count kept of the notes a scale thread sends after a stop
MaxLate == 2

\* ------------------------------------------------------ program constants
NumChannels == 16
DefaultVelocity == 100
MaxMidiValue == 127
DefaultBpm == 120
PPQN == 24
BeatsPerBar == 4
DefaultOctave == 3

Channels == 0..(NumChannels - 1)

\* Python's None for an optional value; a present value x is <<x>>
None == <<>>
Some(x) == <<x>>

\* the step dictionary written by the constructor and by clear_channel
DefaultStep == [active |-> FALSE, note |-> None, velocity |-> DefaultVelocity]

VARIABLES
    max_steps,        \* self.max_steps
    steps_per_bar,    \* self.steps_per_bar
    patterns,         \* self.patterns: channel -> reference into pattern_objs
    pattern_objs,     \* the pattern dictionaries: step -> step dictionary
    channel_lengths,  \* self.channel_lengths
    ret,              \* the dictionary the caller got from get_step (None: none yet)
    ret_ref,          \* <<pattern reference, step>> of the slot that holds the same object as ret
    last,             \* name of the last call and the exception it raised ("none": it returned)
    running,          \* self.running
    playback_step,    \* self.playback_step
    loop_pcs,         \* position of every playback thread ("none": no thread)
    sequencer_thread, \* self.sequencer_thread: index into loop_pcs (0: attribute absent)
    ctl,              \* position of the controlling thread: "idle" or "joining"
    joined,           \* the playback thread the caller of stop() waits for (0: none)
    sent,             \* send_note calls of the latest play_step
    bpm,              \* self.bpm
    step_time,        \* self.step_time, in seconds, as <<numerator, denominator>>
    current_scale,    \* self.current_scale (None and {} are both the empty mapping)
    current_octave,   \* self.current_octave
    scale_playback,   \* self.scale_playback
    scale_thread,     \* self.scale_thread: index into scale_pcs (0: None)
    scale_pcs,        \* position of every scale thread ("none": no thread)
    scale_args,       \* <<note_chance, octave_chance, channel>> every scale thread was given
    scale_sent,       \* <<note, channel, velocity>> of the latest send_note of a scale thread
    scale_late,       \* notes every scale thread sent since stop_scale_playback cleared the flag
    device_channel,   \* self.midi_device.channel
    fill_scale,       \* the scale_dict the latest apply_random_pattern_from_scale was given
    is_master,        \* MidiClock.is_master
    clock_running,    \* MidiClock.running
    stop_flag,        \* MidiClock.stop_flag is set
    tempo,            \* MidiClock.tempo, in hundredths of a BPM
    pulse_interval,   \* MidiClock.pulse_interval, in microseconds
    pulse_count,      \* MidiClock.pulse_count
    last_pulse_time,  \* MidiClock.last_pulse_time, in milliseconds
    sync_source,      \* MidiClock.sync_source (None: not set)
    clock_thread,     \* MidiClock.clock_thread: index into clock_pcs (0: None)
    current_beat,     \* MidiClock.current_beat
    current_bar,      \* MidiClock.current_bar
    clock_pcs,        \* position of every master clock thread ("none": no thread)
    clock_out,        \* the messages every live master clock thread has sent, repeats left out
    inport,           \* MidiClock.inport: the source of the open input port (None: no port)
    clock_ctl,        \* position of the thread that calls the clock's methods
    events,           \* events published by the latest call or handler of the clock
    now,              \* the time of the latest message or pulse, in milliseconds
    handled,          \* pulses handled since the counters were last reset
    step_pc,          \* position of the playback loop inside play_step ("none": outside)
    step_channel,     \* play_step's channel
    step_data,        \* play_step's step_data: the step dictionary it fetched
    step_note,        \* the note play_step has evaluated as send_note's argument
    emitted           \* <<note, channel, velocity>> of play_step's latest send_note

vars == <<max_steps, steps_per_bar, patterns, pattern_objs, channel_lengths,
          ret, ret_ref, last, running, playback_step, loop_pcs,
          sequencer_thread, ctl, joined, sent, bpm, step_time, current_scale,
          current_octave, scale_playback, scale_thread, scale_pcs, scale_args,
          scale_sent, scale_late, device_channel, fill_scale, is_master,
          clock_running, stop_flag, tempo, pulse_interval, pulse_count,
          last_pulse_time, sync_source, clock_thread, current_beat, current_bar,
          clock_pcs, clock_out, inport, clock_ctl, events, now, handled, step_pc,
          step_channel, step_data, step_note, emitted>>

store_vars == <<patterns, pattern_objs, channel_lengths>>
caller_vars == <<ret, ret_ref>>
transport_vars == <<running, playback_step, loop_pcs, sequencer_thread, ctl, joined, sent>>
ctor_vars == <<max_steps, steps_per_bar>>
tempo_vars == <<bpm, step_time>>
scale_vars == <<current_scale, current_octave, scale_playback, scale_thread,
                scale_pcs, scale_args, scale_sent, scale_late, device_channel>>
clock_mode_vars == <<is_master, sync_source, inport>>
clock_run_vars == <<clock_running, stop_flag, clock_thread, clock_pcs, clock_out>>
clock_count_vars == <<pulse_count, current_beat, current_bar, handled>>
clock_tempo_vars == <<tempo, pulse_interval, last_pulse_time, now>>
clock_vars == <<clock_mode_vars, clock_run_vars, clock_count_vars, clock_tempo_vars,
                clock_ctl, events>>
play_vars == <<step_pc, step_channel, step_data, step_note, emitted>>
other_vars == <<fill_scale, clock_vars, play_vars>>
\* the state of the sequencer, but for the ghost of the latest call
sequencer_vars == <<store_vars, caller_vars, transport_vars, ctor_vars, tempo_vars,
                    scale_vars, fill_scale, play_vars>>

\* ---------------------------------------------------------------- helpers
\* range(n)
Range(n) == 0..(n - 1)

\* self.patterns[channel]
PatternOf(channel) == pattern_objs[patterns[channel]]

\* self.patterns[channel][step]
Slot(channel, step) == PatternOf(channel)[step]

\* every stored step of every channel
Stored == [c \in Channels |-> PatternOf(c)]

\* {step: default for step in range(self.max_steps)}
DefaultPattern == [step \in Range(max_steps) |-> DefaultStep]

NoRef == <<>>

\* the greatest common divisor of two natural numbers
RECURSIVE Gcd(_, _)
Gcd(a, b) == IF b = 0 THEN a ELSE Gcd(b, a % b)

Abs(x) == IF x < 0 THEN -x ELSE x

\* 60 / (bpm * (steps_per_bar / 4)) seconds, that is 240 / (bpm * steps_per_bar),
\* as a fraction in lowest terms with the sign in the numerator
StepTime(bpm_, steps_per_bar_) ==
    LET den == bpm_ * steps_per_bar_
        g == Gcd(240, Abs(den))
    IN IF den < 0 THEN <<-(240 \div g), Abs(den) \div g>>
                  ELSE <<240 \div g, den \div g>>

\* ------------------------------------------------------- MidiClock.__init__
\* tempos are kept in hundredths of a BPM
CentiBpm(bpm_) == bpm_ * 100

\* 60.0 / (tempo * ppqn) seconds, in microseconds: 250000000 / tempo
PulseInterval(tempo_) == 250000000 \div tempo_

\* time.time() when the clock is made, in milliseconds
StartTime == 1000

IdleCtl == [pc |-> "idle", op |-> "none", is_master |-> TRUE]

ClockInit ==
    /\ is_master = TRUE
    /\ clock_running = FALSE
    /\ stop_flag = FALSE
    /\ tempo = CentiBpm(DefaultBpm)
    /\ pulse_interval = PulseInterval(CentiBpm(DefaultBpm))
    /\ pulse_count = 0
    /\ last_pulse_time = 0
    /\ sync_source = None
    /\ clock_thread = 0
    /\ current_beat = 0
    /\ current_bar = 0
    /\ handled = 0
    /\ clock_pcs = [t \in 1..MaxClockThreads |-> "none"]
    /\ clock_out = [t \in 1..MaxClockThreads |-> <<>>]
    /\ inport = None
    /\ clock_ctl = IdleCtl
    /\ events = <<>>
    /\ now = StartTime

\* the playback loop before its first play_step
PlayInit ==
    /\ step_pc = "none"
    /\ step_channel = 0
    /\ step_data = DefaultStep
    /\ step_note = None
    /\ emitted = <<>>

\* ------------------------------------------------------------ constructor
\* StepSequencer.__init__(midi_device, bpm, steps_per_bar, max_steps)
Init ==
    /\ max_steps \in 1..MaxStepsBound
    /\ steps_per_bar \in 1..MaxStepsPerBar
    /\ patterns = [c \in Channels |-> c]
    /\ pattern_objs = [d \in Channels |-> [step \in Range(max_steps) |-> DefaultStep]]
    /\ channel_lengths = [c \in Channels |-> steps_per_bar]
    /\ ret = None
    /\ ret_ref = NoRef
    /\ last = [op |-> "init", raised |-> "none"]
    /\ running = FALSE
    /\ playback_step = 0
    /\ loop_pcs = [t \in 1..MaxThreads |-> "none"]
    /\ sequencer_thread = 0
    /\ ctl = "idle"
    /\ joined = 0
    /\ sent = <<>>
    /\ bpm = DefaultBpm
    /\ step_time = StepTime(DefaultBpm, steps_per_bar)
    /\ current_scale = <<>>
    /\ current_octave = DefaultOctave
    /\ scale_playback = FALSE
    /\ scale_thread = 0
    /\ scale_pcs = [t \in 1..MaxScaleThreads |-> "none"]
    /\ scale_args = [t \in 1..MaxScaleThreads |-> <<>>]
    /\ scale_sent = None
    /\ scale_late = [t \in 1..MaxScaleThreads |-> 0]
    /\ device_channel = 0
    /\ fill_scale = <<>>
    /\ ClockInit
    /\ PlayInit

\* a call that raises before it assigns anything
Raise(op, exc) ==
    /\ last' = [op |-> op, raised |-> exc]
    /\ UNCHANGED <<store_vars, caller_vars, transport_vars, ctor_vars, other_vars, tempo_vars, scale_vars>>

\* a reference for a new pattern dictionary of a channel: the one the
\* channel gives up when no other channel holds it, an unused one otherwise
NewPatternRef(channel) ==
    IF \E c \in Channels \ {channel} : patterns[c] = patterns[channel]
    THEN CHOOSE d \in Channels : \A c \in Channels : patterns[c] # d
    ELSE patterns[channel]

\* self.patterns[channel] = new_pattern, where new_pattern holds the step
\* dictionaries of the old one at the steps in kept and new ones elsewhere
AssignPattern(channel, new_pattern, kept) ==
    LET d == NewPatternRef(channel)
    IN /\ patterns' = [patterns EXCEPT ![channel] = d]
       /\ pattern_objs' = [pattern_objs EXCEPT ![d] = new_pattern]
       /\ ret_ref' = IF /\ ret_ref # NoRef
                        /\ ret_ref[1] = d
                        /\ ret_ref[2] \notin kept
                     THEN NoRef ELSE ret_ref

\* ---------------------------------------------------------------- set_step
\* set_step without the upper check of the velocity
set_step_ok_no_max(channel, step, note, velocity) ==
    /\ 0 <= channel /\ channel <= 15
    /\ 0 <= step /\ step < max_steps
    /\ ~(note # None /\ ~(0 <= note[1] /\ note[1] <= MaxMidiValue))
    /\ 0 <= velocity

\* the four range checks of set_step
set_step_ok(channel, step, note, velocity) ==
    /\ 0 <= channel /\ channel <= 15
    /\ 0 <= step /\ step < max_steps
    /\ ~(note # None /\ ~(0 <= note[1] /\ note[1] <= MaxMidiValue))
    /\ 0 <= velocity /\ velocity <= MaxMidiValue

\* set_step storing the default velocity instead of its argument
NewStep_default_velocity(active, note, velocity) ==
    [active |-> active, note |-> note, velocity |-> DefaultVelocity]

\* the dictionary set_step stores
NewStep(active, note, velocity) ==
    [active |-> active, note |-> note, velocity |-> velocity]

\* self.patterns[channel][step] = value: the pattern dictionary is updated
\* in place and the slot gets a new step dictionary
StoreStep(channel, step, value) ==
    /\ pattern_objs' = [pattern_objs EXCEPT ![patterns[channel]] =
           [s \in (DOMAIN @) \cup {step} |-> IF s = step THEN value ELSE @[s]]]
    /\ ret_ref' = IF ret_ref = <<patterns[channel], step>> THEN NoRef ELSE ret_ref

set_step(channel, step, active, note, velocity) ==
    /\ ctl = "idle"
    /\ IF ~set_step_ok(channel, step, note, velocity)
       THEN Raise("set_step", "ValueError")
       ELSE /\ StoreStep(channel, step, NewStep(active, note, velocity))
            /\ last' = [op |-> "set_step", raised |-> "none"]
            /\ UNCHANGED <<patterns, channel_lengths, ret, transport_vars, ctor_vars, other_vars, tempo_vars, scale_vars>>

\* ---------------------------------------------------------------- get_step
\* the two range checks of get_step
get_step_ok(channel, step) ==
    /\ 0 <= channel /\ channel <= 15
    /\ 0 <= step /\ step < max_steps

\* the value of the dictionary a get_step call with valid arguments returns
get_step_returns(channel, step) == Some(Slot(channel, step))

\* get_step returning the stored dictionary itself
get_step_ref_live(channel, step) == <<patterns[channel], step>>

\* the slot whose step dictionary get_step's result is: none, it is a .copy()
get_step_ref(channel, step) == NoRef

get_step(channel, step) ==
    /\ ctl = "idle"
    /\ IF ~get_step_ok(channel, step)
       THEN Raise("get_step", "ValueError")
       ELSE /\ ret' = get_step_returns(channel, step)
            /\ ret_ref' = get_step_ref(channel, step)
            /\ last' = [op |-> "get_step", raised |-> "none"]
            /\ UNCHANGED <<store_vars, transport_vars, ctor_vars, other_vars, tempo_vars, scale_vars>>

\* the caller assigns to a key of the dictionary it got from get_step
mutate_returned(field, value) ==
    /\ ctl = "idle"
    /\ ret # None
    /\ ret' = Some([ret[1] EXCEPT ![field] = value])
    /\ pattern_objs' = IF ret_ref = NoRef THEN pattern_objs
                       ELSE [pattern_objs EXCEPT ![ret_ref[1]][ret_ref[2]][field] = value]
    /\ last' = [op |-> "mutate_returned", raised |-> "none"]
    /\ UNCHANGED <<patterns, channel_lengths, ret_ref, transport_vars, ctor_vars, other_vars, tempo_vars, scale_vars>>

\* ----------------------------------------------------------- clear_channel
clear_channel(channel) ==
    /\ ctl = "idle"
    /\ IF ~(0 <= channel /\ channel <= 15)
       THEN Raise("clear_channel", "ValueError")
       ELSE /\ AssignPattern(channel, DefaultPattern, {})
            /\ last' = [op |-> "clear_channel", raised |-> "none"]
            /\ UNCHANGED <<channel_lengths, ret, transport_vars, ctor_vars, other_vars, tempo_vars, scale_vars>>

\* ------------------------------------------------------- set_channel_steps
\* the two range checks of set_channel_steps
set_channel_steps_ok(channel, steps) ==
    /\ 0 <= channel /\ channel <= 15
    /\ 1 <= steps /\ steps <= max_steps

\* set_channel_steps comparing with <= : the slot at the new length survives
KeepsStep_one_more(current_pattern, step, steps) ==
    step <= steps /\ step \in DOMAIN current_pattern

\* set_channel_steps keeping one slot too few
KeepsStep_one_less(current_pattern, step, steps) ==
    step < steps - 1 /\ step \in DOMAIN current_pattern

\* new_pattern[step] is current_pattern[step]
KeepsStep(current_pattern, step, steps) ==
    step < steps /\ step \in DOMAIN current_pattern

set_channel_steps(channel, steps) ==
    /\ ctl = "idle"
    /\ IF ~set_channel_steps_ok(channel, steps)
       THEN Raise("set_channel_steps", "ValueError")
       ELSE LET current_pattern == PatternOf(channel)
                kept == {step \in Range(max_steps) :
                            KeepsStep(current_pattern, step, steps)}
                new_pattern == [step \in Range(max_steps) |->
                    IF step \in kept THEN current_pattern[step] ELSE DefaultStep]
            IN /\ channel_lengths' = [channel_lengths EXCEPT ![channel] = steps]
               /\ AssignPattern(channel, new_pattern, kept)
               /\ last' = [op |-> "set_channel_steps", raised |-> "none"]
               /\ UNCHANGED <<ret, transport_vars, ctor_vars, other_vars, tempo_vars, scale_vars>>

\* ---------------------------------------------------- copy_channel_pattern
\* copy_channel_pattern assigning the source's dictionary itself
copy_channel_pattern_alias(source_channel, target_channel) ==
    /\ ctl = "idle"
    /\ IF ~(0 <= source_channel /\ source_channel <= 15
            /\ 0 <= target_channel /\ target_channel <= 15)
       THEN Raise("copy_channel_pattern", "ValueError")
       ELSE /\ patterns' = [patterns EXCEPT ![target_channel] = patterns[source_channel]]
            /\ last' = [op |-> "copy_channel_pattern", raised |-> "none"]
            /\ UNCHANGED <<pattern_objs, channel_lengths, caller_vars,
                           transport_vars, ctor_vars, other_vars, tempo_vars, scale_vars>>

\* {step: self.patterns[source_channel][step].copy() for step in range(self.max_steps)}
copy_channel_pattern(source_channel, target_channel) ==
    /\ ctl = "idle"
    /\ IF ~(0 <= source_channel /\ source_channel <= 15
            /\ 0 <= target_channel /\ target_channel <= 15)
       THEN Raise("copy_channel_pattern", "ValueError")
       ELSE /\ AssignPattern(target_channel,
                  [step \in Range(max_steps) |-> Slot(source_channel, step)], {})
            /\ last' = [op |-> "copy_channel_pattern", raised |-> "none"]
            /\ UNCHANGED <<channel_lengths, ret, transport_vars, ctor_vars, other_vars, tempo_vars, scale_vars>>

\* ----------------------------------------- apply_random_pattern_from_scale
\* A scale is a function from octave numbers to sequences of notes.
\* Probabilities and random.random() draws are counted in tenths.

\* values of random.random(), which lies in [0.0, 1.0)
RandomDraws == {0, 5, 9}

\* a random integer that can be one below the range
RandInt_below(a, b) == {a - 1, b}

\* values of random.randint(a, b): both ends are included
RandInt(a, b) == {a, b}

\* values of random.choice(seq) of a non-empty sequence
Choice(seq) == {seq[i] : i \in DOMAIN seq}

\* max(scale_dict.keys())
MinKey_largest(scale_dict) ==
    CHOOSE o \in DOMAIN scale_dict : \A q \in DOMAIN scale_dict : o >= q

\* min(scale_dict.keys())
MinKey(scale_dict) ==
    CHOOSE o \in DOMAIN scale_dict : \A q \in DOMAIN scale_dict : o <= q

\* a fill that stores its notes in steps that are not active
RandomStep_inactive(note, velocity) ==
    [active |-> FALSE, note |-> Some(note), velocity |-> velocity]

\* the dictionary apply_random_pattern_from_scale stores for a drawn note
RandomStep(note, velocity) ==
    [active |-> TRUE, note |-> Some(note), velocity |-> velocity]

\* The loop of apply_random_pattern_from_scale from iteration step on, with
\* the local current_octave (octave_now) as it is at that point.  The result
\* is the set of its possible outcomes: writes[i] is None when iteration step + i - 1 left
\* its slot alone and Some(step dictionary) when it stored one; raised is
\* the exception that ended the loop early.
RECURSIVE FillFrom(_, _, _, _, _, _)
FillFrom(scale_dict, note_chance, octave_chance, pattern_length, step, octave_now) ==
    IF step >= pattern_length
    THEN {[writes |-> <<>>, raised |-> "none"]}
    ELSE LET Rest(octave) == FillFrom(scale_dict, note_chance, octave_chance,
                                      pattern_length, step + 1, octave)
             Then(w, octave) == {[writes |-> <<w>> \o o.writes, raised |-> o.raised] :
                                    o \in Rest(octave)}
             \* the iteration once the octave is settled
             Pick(octave) ==
                 IF octave \notin DOMAIN scale_dict
                 THEN Then(None, octave)
                 ELSE IF scale_dict[octave] = <<>>
                 THEN {[writes |-> <<>>, raised |-> "IndexError"]}
                 ELSE UNION {Then(Some(RandomStep(note, velocity)), octave) :
                                <<note, velocity>> \in
                                    Choice(scale_dict[octave]) \X RandInt(80, 100)}
             \* the outcomes of the two comparisons over the possible draws
             note_hits == {note_rand <= note_chance : note_rand \in RandomDraws}
             repicks == {octave_rand <= octave_chance : octave_rand \in RandomDraws}
             \* current_octave after the octave draw
             octaves ==
                 (IF TRUE \in repicks THEN DOMAIN scale_dict ELSE {})
                 \cup (IF FALSE \in repicks THEN {octave_now} ELSE {})
         IN (IF TRUE \in note_hits
             THEN UNION {Pick(octave) : octave \in octaves} ELSE {})
            \cup (IF FALSE \in note_hits THEN Then(None, octave_now) ELSE {})

\* the pattern dictionary after the writes of the loop, made on a cleared one
Filled(writes) ==
    [step \in Range(max_steps) \cup {i - 1 : i \in {j \in DOMAIN writes : writes[j] # None}} |->
        IF step + 1 \in DOMAIN writes /\ writes[step + 1] # None
        THEN writes[step + 1][1]
        ELSE DefaultStep]

apply_random_pattern_from_scale(channel, scale_dict, note_chance, octave_chance) ==
    /\ ctl = "idle"
    /\ fill_scale' = scale_dict
    /\ LET rest == <<channel_lengths, ret, transport_vars, ctor_vars, tempo_vars, scale_vars,
                     clock_vars, play_vars>>
       IN IF channel \notin DOMAIN channel_lengths
          THEN /\ last' = [op |-> "apply_random_pattern_from_scale", raised |-> "KeyError"]
               /\ UNCHANGED <<patterns, pattern_objs, ret_ref, rest>>
          ELSE IF DOMAIN scale_dict = {}
          THEN \* clear_channel has run when min() raises
               /\ AssignPattern(channel, DefaultPattern, {})
               /\ last' = [op |-> "apply_random_pattern_from_scale", raised |-> "ValueError"]
               /\ UNCHANGED rest
          ELSE \E o \in FillFrom(scale_dict, note_chance, octave_chance,
                                 channel_lengths[channel], 0, MinKey(scale_dict)) :
               /\ AssignPattern(channel, Filled(o.writes), {})
               /\ last' = [op |-> "apply_random_pattern_from_scale", raised |-> o.raised]
               /\ UNCHANGED rest

\* ------------------------------------------------------------------- start
\* thread objects that have ended are forgotten: a new thread takes the
\* first entry of loop_pcs whose thread is not alive
Alive(t) == loop_pcs[t] \in {"while", "play", "sleep", "hung"}

FreeThread == CHOOSE t \in 1..MaxThreads : ~Alive(t) /\ \A u \in 1..(t - 1) : Alive(u)

\* start() without the test of self.running
start_spawns_always == TRUE

\* start() creates a thread: only when the sequencer is not running
start_spawns == ~running

\* the body of start()
start_call ==
    IF start_spawns
    THEN /\ \E t \in 1..MaxThreads : ~Alive(t)
         /\ running' = TRUE
         /\ loop_pcs' = [loop_pcs EXCEPT ![FreeThread] = "while"]
         /\ sequencer_thread' = FreeThread
         /\ last' = [op |-> "start", raised |-> "none"]
         /\ UNCHANGED <<store_vars, caller_vars, playback_step, ctl, joined, sent, ctor_vars,
                        other_vars, tempo_vars, scale_vars>>
    ELSE \* the call found the sequencer running
         /\ last' = [op |-> "start_running", raised |-> "none"]
         /\ UNCHANGED <<store_vars, caller_vars, transport_vars, ctor_vars, other_vars,
                        tempo_vars, scale_vars>>

\* start() called by the thread that makes all the calls
start == ctl = "idle" /\ start_call

\* start() called by a second thread while the first one waits in the
\* join() of stop()
start_during_join == ctl = "joining" /\ start_call

\* -------------------------------------------------------------------- stop
\* stop() that calls join() without the test of the attribute
stop_has_thread_always == TRUE

\* hasattr(self, "sequencer_thread")
stop_has_thread == sequencer_thread # 0

\* self.running = False, then join() when the attribute exists; reading an
\* attribute that does not exist raises AttributeError
stop ==
    /\ ctl = "idle"
    /\ running' = FALSE
    /\ IF ~stop_has_thread
       THEN ctl' = "idle" /\ last' = [op |-> "stop", raised |-> "none"]
       ELSE IF sequencer_thread = 0
       THEN ctl' = "idle" /\ last' = [op |-> "stop", raised |-> "AttributeError"]
       ELSE ctl' = "joining" /\ last' = [op |-> "stop", raised |-> "none"]
    /\ joined' = IF stop_has_thread THEN sequencer_thread ELSE 0
    /\ UNCHANGED <<store_vars, caller_vars, playback_step, loop_pcs,
                   sequencer_thread, sent, ctor_vars, other_vars, tempo_vars, scale_vars>>

\* join() that returns at once
join_returns_at_once(t) == TRUE

\* join() returns once the thread has ended
join_returns(t) == loop_pcs[t] \in {"done", "failed"}

\* the join() of stop() returns: the thread it waits for is the one
\* self.sequencer_thread held when stop() read the attribute
stop_join ==
    /\ ctl = "joining"
    /\ join_returns(joined)
    /\ ctl' = "idle"
    /\ joined' = 0
    /\ UNCHANGED <<store_vars, caller_vars, last, running, playback_step,
                   loop_pcs, sequencer_thread, sent, ctor_vars, other_vars, tempo_vars, scale_vars>>

\* -------------------------------------------------------------------- _run
\* while self.running
run_while(t) ==
    /\ loop_pcs[t] = "while"
    /\ loop_pcs' = [loop_pcs EXCEPT ![t] = IF running THEN "play" ELSE "done"]
    /\ UNCHANGED <<store_vars, caller_vars, last, running, playback_step,
                   sequencer_thread, ctl, joined, sent, ctor_vars, other_vars, tempo_vars, scale_vars>>

\* MidiDevice.send_note raises ValueError for a note outside 0..127
send_note_ok(note) == 0 <= note /\ note <= MaxMidiValue

\* The send_note calls of play_step(step) for the channels from channel on:
\* notes is the sequence of <<note, channel, velocity>> sent, raised the
\* exception that ended the call early.
RECURSIVE PlayFrom(_, _)
PlayFrom(step, channel) ==
    IF channel >= NumChannels
    THEN [notes |-> <<>>, raised |-> "none"]
    ELSE IF step \notin DOMAIN PatternOf(channel)
    THEN [notes |-> <<>>, raised |-> "KeyError"]
    ELSE LET slot_data == Slot(channel, step)
             rest == PlayFrom(step, channel + 1)
         IN IF slot_data.active /\ slot_data.note # None
            THEN IF ~send_note_ok(slot_data.note[1])
                 THEN [notes |-> <<>>, raised |-> "ValueError"]
                 ELSE [notes |-> <<<<slot_data.note[1], channel, slot_data.velocity>>>>
                                    \o rest.notes,
                       raised |-> rest.raised]
            ELSE rest

\* play_step(step) with the MIDI output: every send_note call may fail in
\* outport.send, which ends play_step with the notes sent before it
PlayOutcomes(step) ==
    LET played == PlayFrom(step, 0)
    IN {played} \cup {[notes |-> SubSeq(played.notes, 1, k - 1), raised |-> "SinkError"] :
                         k \in 1..Len(played.notes)}

\* _run after play_step: an exception is not caught and ends the thread
run_play_outcome(raised) == IF raised = "none" THEN "sleep" ELSE "failed"

\* self.play_step(self.playback_step)
run_play(t) ==
    /\ loop_pcs[t] = "play"
    /\ \E played \in PlayOutcomes(playback_step) :
          /\ sent' = played.notes
          /\ loop_pcs' = [loop_pcs EXCEPT ![t] = run_play_outcome(played.raised)]
    /\ UNCHANGED <<store_vars, caller_vars, last, running, playback_step,
                   sequencer_thread, ctl, joined, ctor_vars, other_vars, tempo_vars, scale_vars>>

\* time.sleep(sleep_time), then the step advances modulo channel 0's length
run_advance(t) ==
    /\ loop_pcs[t] = "sleep"
    /\ playback_step' = (playback_step + 1) % channel_lengths[0]
    /\ loop_pcs' = [loop_pcs EXCEPT ![t] = "while"]
    /\ UNCHANGED <<store_vars, caller_vars, last, running, sequencer_thread,
                   ctl, joined, sent, ctor_vars, other_vars, tempo_vars, scale_vars>>

\* ------------------------------------------- play_step, one read at a time
\* the end of the body of play_step's loop for one channel: the next
\* channel, or the end of play_step after channel 15
NextChannel ==
    IF step_channel + 1 < NumChannels
    THEN step_pc' = "fetch" /\ step_channel' = step_channel + 1
    ELSE step_pc' = "sleep" /\ step_channel' = step_channel

\* the playback loop calls self.play_step(self.playback_step)
play_begin ==
    /\ step_pc = "none"
    /\ step_pc' = "fetch"
    /\ step_channel' = 0
    /\ UNCHANGED <<store_vars, caller_vars, last, transport_vars, ctor_vars, tempo_vars,
                   scale_vars, fill_scale, clock_vars, step_data, step_note, emitted>>

\* step_data = self.patterns[channel][step]: a KeyError ends the loop
play_fetch ==
    /\ step_pc = "fetch"
    /\ IF playback_step \in DOMAIN PatternOf(step_channel)
       THEN step_data' = Slot(step_channel, playback_step) /\ step_pc' = "active"
       ELSE step_data' = step_data /\ step_pc' = "failed"
    /\ UNCHANGED <<store_vars, caller_vars, last, transport_vars, ctor_vars, tempo_vars,
                   scale_vars, fill_scale, clock_vars, step_channel, step_note, emitted>>

\* a play_step that indexes self.patterns again at every read
StepField_live(field) == Slot(step_channel, playback_step)[field]

\* step_data[field]: a read of the step dictionary that was fetched
StepField(field) == step_data[field]

\* if step_data['active']
play_active ==
    /\ step_pc = "active"
    /\ IF StepField("active")
       THEN step_pc' = "note" /\ step_channel' = step_channel
       ELSE NextChannel
    /\ UNCHANGED <<store_vars, caller_vars, last, transport_vars, ctor_vars, tempo_vars,
                   scale_vars, fill_scale, clock_vars, step_data, step_note, emitted>>

\* and step_data['note'] is not None
play_note ==
    /\ step_pc = "note"
    /\ IF StepField("note") # None
       THEN step_pc' = "arg" /\ step_channel' = step_channel
       ELSE NextChannel
    /\ UNCHANGED <<store_vars, caller_vars, last, transport_vars, ctor_vars, tempo_vars,
                   scale_vars, fill_scale, clock_vars, step_data, step_note, emitted>>

\* step_data['note'], the first argument of send_note
play_arg ==
    /\ step_pc = "arg"
    /\ step_note' = StepField("note")
    /\ step_pc' = "send"
    /\ UNCHANGED <<store_vars, caller_vars, last, transport_vars, ctor_vars, tempo_vars,
                   scale_vars, fill_scale, clock_vars, step_channel, step_data, emitted>>

\* step_data['velocity'], the last argument, and the call of send_note: a
\* ValueError for the note or a failure of the output ends the loop
play_send ==
    /\ step_pc = "send"
    /\ \/ /\ step_note # None /\ send_note_ok(step_note[1])
          /\ emitted' = <<step_note[1], step_channel, StepField("velocity")>>
          /\ NextChannel
       \/ /\ step_pc' = "failed"
          /\ UNCHANGED <<emitted, step_channel>>
    /\ UNCHANGED <<store_vars, caller_vars, last, transport_vars, ctor_vars, tempo_vars,
                   scale_vars, fill_scale, clock_vars, step_data, step_note>>

\* _run after play_step: the sleep, then the step advances modulo channel
\* 0's length
play_advance ==
    /\ step_pc = "sleep"
    /\ playback_step' = (playback_step + 1) % channel_lengths[0]
    /\ step_pc' = "none"
    /\ UNCHANGED <<store_vars, caller_vars, last, running, loop_pcs, sequencer_thread, ctl,
                   joined, sent, ctor_vars, tempo_vars, scale_vars, fill_scale, clock_vars,
                   step_channel, step_data, step_note, emitted>>

\* ----------------------------------------------------------------- set_bpm
\* set_bpm that rejects only a bpm of 0
set_bpm_ok_nonzero(bpm_) == bpm_ # 0

\* if bpm <= 0: raise ValueError
set_bpm_ok(bpm_) == bpm_ > 0

set_bpm(bpm_) ==
    IF ~set_bpm_ok(bpm_)
    THEN Raise("set_bpm", "ValueError")
    ELSE /\ bpm' = bpm_
         /\ step_time' = StepTime(bpm_, steps_per_bar)
         /\ last' = [op |-> "set_bpm", raised |-> "none"]
         /\ UNCHANGED <<store_vars, caller_vars, transport_vars, ctor_vars, other_vars, scale_vars>>

\* ---------------------------------------------------- start_scale_playback
\* scale threads that have ended are forgotten, as playback threads are
ScaleAlive(t) == scale_pcs[t] \in {"while", "tick", "sleep", "hung"}

FreeScaleThread ==
    CHOOSE t \in 1..MaxScaleThreads : ~ScaleAlive(t) /\ \A u \in 1..(t - 1) : ScaleAlive(u)

NoneLate == [t \in 1..MaxScaleThreads |-> 0]

\* min(scale_dict.keys()) of an empty mapping raises ValueError, after
\* self.current_scale was assigned
start_scale_playback(scale_dict, note_chance, octave_chance, channel) ==
    IF DOMAIN scale_dict = {}
    THEN /\ current_scale' = scale_dict
         /\ last' = [op |-> "start_scale_playback", raised |-> "ValueError"]
         /\ UNCHANGED <<store_vars, caller_vars, transport_vars, ctor_vars, other_vars, tempo_vars,
                        current_octave, scale_playback, scale_thread, scale_pcs,
                        scale_args, scale_sent, scale_late, device_channel>>
    ELSE /\ \E t \in 1..MaxScaleThreads : ~ScaleAlive(t)
         /\ current_scale' = scale_dict
         /\ current_octave' = MinKey(scale_dict)
         /\ scale_playback' = TRUE
         /\ scale_pcs' = [scale_pcs EXCEPT ![FreeScaleThread] = "while"]
         /\ scale_args' = [scale_args EXCEPT ![FreeScaleThread] =
                              <<note_chance, octave_chance, channel>>]
         /\ scale_thread' = FreeScaleThread
         /\ scale_late' = NoneLate
         /\ last' = [op |-> "start_scale_playback", raised |-> "none"]
         /\ UNCHANGED <<store_vars, caller_vars, transport_vars, ctor_vars, other_vars, tempo_vars,
                        scale_sent, device_channel>>

\* ----------------------------------------------------- stop_scale_playback
stop_scale_playback ==
    /\ scale_playback' = FALSE
    /\ scale_thread' = 0
    /\ scale_late' = NoneLate
    /\ last' = [op |-> "stop_scale_playback", raised |-> "none"]
    /\ UNCHANGED <<store_vars, caller_vars, transport_vars, ctor_vars, other_vars, tempo_vars,
                   current_scale, current_octave, scale_pcs, scale_args, scale_sent,
                   device_channel>>

\* ------------------------------------------------------- play_random_scale
\* a loop that tests self.current_scale alone
scale_continues_without_flag == DOMAIN current_scale # {}

\* while self.scale_playback and self.current_scale
scale_continues == scale_playback /\ DOMAIN current_scale # {}

scale_while(t) ==
    /\ scale_pcs[t] = "while"
    /\ scale_pcs' = [scale_pcs EXCEPT ![t] = IF scale_continues THEN "tick" ELSE "done"]
    /\ UNCHANGED <<store_vars, caller_vars, transport_vars, ctor_vars, other_vars, tempo_vars, last,
                   current_scale, current_octave, scale_playback, scale_thread,
                   scale_args, scale_sent, scale_late, device_channel>>

\* a loop that sends on the channel start_scale_playback was given
scale_note_channel_given(t) == scale_args[t][3]

\* channel=self.midi_device.channel: the channel parameter is not used
scale_note_channel(t) == device_channel

\* the notes a thread has sent since stop_scale_playback cleared the flag
LateAfterSend(t) ==
    IF scale_playback THEN scale_late
    ELSE [scale_late EXCEPT ![t] = IF @ < MaxLate THEN @ + 1 ELSE @]

\* the tick ends: with a note sent (Some) or without one (None), or with an
\* exception that ends the thread
ScaleTickEnds(t, pc, octave, note_sent) ==
    /\ scale_pcs' = [scale_pcs EXCEPT ![t] = pc]
    /\ current_octave' = octave
    /\ scale_sent' = note_sent
    /\ scale_late' = IF note_sent = None THEN scale_late ELSE LateAfterSend(t)

\* a tick that plays a note whatever the first draw is
NoteHit_always(note_rand, note_chance) == TRUE

\* if rand_value <= note_chance
NoteHit(note_rand, note_chance) == note_rand <= note_chance

\* the body of the loop up to time.sleep, with the values note_rand and
\* octave_rand of its two calls of random.random(); the second value is
\* drawn only when the first one passed
scale_tick_drawn(t, note_rand, octave_rand) ==
    /\ scale_pcs[t] = "tick"
    /\ LET \* from "if self.current_octave in self.current_scale" on
           Play(octave) ==
               IF octave \notin DOMAIN current_scale
               THEN ScaleTickEnds(t, "sleep", octave, None)
               ELSE IF current_scale[octave] = <<>>
               THEN ScaleTickEnds(t, "failed", octave, None)
               ELSE \E note \in Choice(current_scale[octave]), velocity \in RandInt(70, 100) :
                       IF ~send_note_ok(note)
                       THEN ScaleTickEnds(t, "failed", octave, None)
                       ELSE \/ ScaleTickEnds(t, "sleep", octave,
                                             Some(<<note, scale_note_channel(t), velocity>>))
                            \/ ScaleTickEnds(t, "failed", octave, None)
       IN IF ~NoteHit(note_rand, scale_args[t][1])
          THEN ScaleTickEnds(t, "sleep", current_octave, None)
          ELSE IF ~(octave_rand <= scale_args[t][2])
          THEN Play(current_octave)
          ELSE IF DOMAIN current_scale = {}
          THEN ScaleTickEnds(t, "failed", current_octave, None)
          ELSE \E octave \in DOMAIN current_scale : Play(octave)
    /\ UNCHANGED <<store_vars, caller_vars, transport_vars, ctor_vars, other_vars, tempo_vars, last,
                   current_scale, scale_playback, scale_thread, scale_args,
                   device_channel>>

\* one tick of the loop, over the values random.random() can give: draws
\* for which the tests of the tick come out the same give the same tick,
\* and one draw stands for them
scale_tick(t) ==
    /\ scale_pcs[t] = "tick"
    /\ LET note_draws ==
               {CHOOSE r \in RandomDraws : NoteHit(r, scale_args[t][1]) = hit :
                   hit \in {NoteHit(r, scale_args[t][1]) : r \in RandomDraws}}
           octave_draws ==
               {CHOOSE r \in RandomDraws : (r <= scale_args[t][2]) = repick :
                   repick \in {r <= scale_args[t][2] : r \in RandomDraws}}
       IN \E note_rand \in note_draws :
             \E octave_rand \in (IF NoteHit(note_rand, scale_args[t][1])
                                 THEN octave_draws ELSE {0}) :
                scale_tick_drawn(t, note_rand, octave_rand)

\* time.sleep(self.step_time)
scale_sleep(t) ==
    /\ scale_pcs[t] = "sleep"
    /\ scale_pcs' = [scale_pcs EXCEPT ![t] = "while"]
    /\ UNCHANGED <<store_vars, caller_vars, transport_vars, ctor_vars, other_vars, tempo_vars, last,
                   current_scale, current_octave, scale_playback, scale_thread,
                   scale_args, scale_sent, scale_late, device_channel>>

\* ------------------------------------------------- MidiDevice.set_channel
set_channel(channel) ==
    IF ~(0 <= channel /\ channel <= 15)
    THEN Raise("set_channel", "ValueError")
    ELSE /\ device_channel' = channel
         /\ last' = [op |-> "set_channel", raised |-> "none"]
         /\ UNCHANGED <<store_vars, caller_vars, transport_vars, ctor_vars, other_vars, tempo_vars,
                        current_scale, current_octave, scale_playback, scale_thread,
                        scale_pcs, scale_args, scale_sent, scale_late>>

\* --------------------------------------------------- MidiClock._handle_pulse
\* estimated_tempo = 60.0 / (pulse_time * self.ppqn), pulse_time in
\* milliseconds: 250000 / pulse_time hundredths of a BPM
EstimatedTempo(pulse_time) == 250000 \div pulse_time

\* self.tempo * 0.95 + estimated_tempo * 0.05, rounded down to a hundredth
Smoothed(tempo_, pulse_time) == (tempo_ * 95 + EstimatedTempo(pulse_time) * 5) \div 100

\* a beat that is counted at every pulse
IsBeat_every_pulse(count) == TRUE

\* if self.pulse_count % self.ppqn == 0
IsBeat(count) == count % PPQN = 0

\* _handle_beat: the beat after one more beat
BeatAfter(beat) == IF beat + 1 >= BeatsPerBar THEN 0 ELSE beat + 1

\* _handle_beat: the bar after one more beat
BarAfter(beat, bar) == IF beat + 1 >= BeatsPerBar THEN bar + 1 ELSE bar

\* the events _handle_pulse publishes: bar, beat, and every sixth pulse
PulseEvents(count, beat) ==
    (IF IsBeat(count) /\ beat + 1 >= BeatsPerBar THEN <<"bar">> ELSE <<>>)
    \o (IF IsBeat(count) THEN <<"beat">> ELSE <<>>)
    \o (IF count % 6 = 0 THEN <<"pulse">> ELSE <<>>)

\* a handler that estimates the tempo in master mode too
Estimates_in_master == last_pulse_time > 0

\* if self.last_pulse_time > 0: ... if not self.is_master
Estimates == ~is_master /\ last_pulse_time > 0

\* _handle_pulse() with time.time() = current_time.  In slave mode a pulse
\* at the very time of the one before divides by zero and the handler ends
\* there.
HandlePulse(current_time) ==
    LET estimates == Estimates
        pulse_time == current_time - last_pulse_time
    IN /\ now' = current_time
       /\ IF estimates /\ pulse_time = 0
          THEN /\ events' = <<>>
               /\ UNCHANGED <<tempo, pulse_interval, last_pulse_time, clock_count_vars>>
          ELSE /\ tempo' = IF estimates THEN Smoothed(tempo, pulse_time) ELSE tempo
               /\ pulse_interval' = IF estimates THEN PulseInterval(tempo') ELSE pulse_interval
               /\ last_pulse_time' = current_time
               /\ pulse_count' = pulse_count + 1
               /\ handled' = handled + 1
               /\ current_beat' = IF IsBeat(pulse_count + 1)
                                  THEN BeatAfter(current_beat) ELSE current_beat
               /\ current_bar' = IF IsBeat(pulse_count + 1)
                                 THEN BarAfter(current_beat, current_bar) ELSE current_bar
               /\ events' = PulseEvents(pulse_count + 1, current_beat)

\* self.pulse_count = 0; self.current_beat = 0; self.current_bar = 0
ResetCounters ==
    /\ pulse_count' = 0
    /\ current_beat' = 0
    /\ current_bar' = 0
    /\ handled' = 0

\* ------------------------------------------------ MidiClock._run_master_clock
ClockAlive(t) == clock_pcs[t] \in {"entry", "begin", "while", "send", "handle", "hung"}

FreeClockThread ==
    CHOOSE t \in 1..MaxClockThreads : ~ClockAlive(t) /\ \A u \in 1..(t - 1) : ClockAlive(u)

\* the messages of a thread after one more message; a thread that has
\* ended is forgotten, and its messages with it
SentBy(t, message) ==
    [clock_out EXCEPT ![t] = IF @ # <<>> /\ @[Len(@)] = message THEN @ ELSE Append(@, message)]

Forgotten(t) == [clock_out EXCEPT ![t] = <<>>]

\* a master loop that sends no start message
SendsStart_never == FALSE

\* send_start: if self.is_master and self.midi_device
SendsStart == is_master

\* the thread begins: send_start() tests the mode and calls outport.send;
\* without a send the counters are reset at once
clock_enter(t) ==
    /\ clock_pcs[t] = "entry"
    /\ IF SendsStart
       THEN /\ clock_pcs' = [clock_pcs EXCEPT ![t] = "begin"]
            /\ UNCHANGED clock_count_vars
       ELSE /\ clock_pcs' = [clock_pcs EXCEPT ![t] = "while"]
            /\ ResetCounters
    /\ UNCHANGED <<sequencer_vars, last, clock_mode_vars, clock_running, stop_flag,
                   clock_thread, clock_out, clock_tempo_vars, clock_ctl, events>>

\* the send of send_start() returns, and the counters are reset; a send
\* that fails ends the thread
clock_begin(t) ==
    /\ clock_pcs[t] = "begin"
    /\ \/ /\ ResetCounters
          /\ clock_pcs' = [clock_pcs EXCEPT ![t] = "while"]
          /\ clock_out' = SentBy(t, "start")
       \/ /\ clock_pcs' = [clock_pcs EXCEPT ![t] = "failed"]
          /\ clock_out' = Forgotten(t)
          /\ UNCHANGED clock_count_vars
    /\ UNCHANGED <<sequencer_vars, last, clock_mode_vars, clock_running, stop_flag,
                   clock_thread, clock_tempo_vars, clock_ctl, events>>

\* while self.running and not self.stop_flag.is_set(), and the test
\* elapsed >= self.pulse_interval, whose outcome is due; when no pulse is
\* due the loop sleeps and tests again
clock_while(t, due) ==
    /\ clock_pcs[t] = "while"
    /\ IF clock_running /\ ~stop_flag
       THEN /\ due
            /\ clock_pcs' = [clock_pcs EXCEPT ![t] = "send"]
            /\ clock_out' = clock_out
       ELSE /\ clock_pcs' = [clock_pcs EXCEPT ![t] = "done"]
            /\ clock_out' = Forgotten(t)
    /\ UNCHANGED <<sequencer_vars, last, clock_mode_vars, clock_running, stop_flag,
                   clock_thread, clock_count_vars, clock_tempo_vars, clock_ctl, events>>

\* self.midi_device.outport.send(mido.Message('clock')); a send that fails
\* ends the thread
clock_send(t) ==
    /\ clock_pcs[t] = "send"
    /\ \/ /\ clock_pcs' = [clock_pcs EXCEPT ![t] = "handle"]
          /\ clock_out' = SentBy(t, "clock")
       \/ /\ clock_pcs' = [clock_pcs EXCEPT ![t] = "failed"]
          /\ clock_out' = Forgotten(t)
    /\ UNCHANGED <<sequencer_vars, last, clock_mode_vars, clock_running, stop_flag,
                   clock_thread, clock_count_vars, clock_tempo_vars, clock_ctl, events>>

\* self._handle_pulse(), then the sleep of a fraction of the interval
clock_handle(t, current_time) ==
    /\ clock_pcs[t] = "handle"
    /\ HandlePulse(current_time)
    /\ clock_pcs' = [clock_pcs EXCEPT ![t] = "while"]
    /\ UNCHANGED <<sequencer_vars, last, clock_mode_vars, clock_running, stop_flag,
                   clock_thread, clock_out, clock_ctl>>

\* ------------------------------------------------------------ MidiClock.start
\* the input port after _start_slave_clock: no source, no port; opening the
\* port can fail, and then the port is the one of before
SlaveOpen == IF sync_source = None THEN {inport} ELSE {sync_source, inport}

\* the body of start()
StartBody ==
    IF clock_running
    THEN UNCHANGED <<clock_running, stop_flag, clock_thread, clock_pcs, clock_out, inport>>
    ELSE /\ clock_running' = TRUE
         /\ stop_flag' = FALSE
         /\ IF is_master
            THEN /\ \E t \in 1..MaxClockThreads : ~ClockAlive(t)
                 /\ clock_thread' = FreeClockThread
                 /\ clock_pcs' = [clock_pcs EXCEPT ![FreeClockThread] = "entry"]
                 /\ clock_out' = Forgotten(FreeClockThread)
                 /\ inport' = inport
            ELSE /\ inport' \in SlaveOpen
                 /\ UNCHANGED <<clock_thread, clock_pcs, clock_out>>

clock_start ==
    /\ clock_ctl.pc = "idle"
    /\ StartBody
    /\ last' = [op |-> "clock_start", raised |-> "none"]
    /\ events' = <<>>
    /\ UNCHANGED <<sequencer_vars, is_master, sync_source, clock_count_vars,
                   clock_tempo_vars, clock_ctl>>

\* ------------------------------------------------------------- MidiClock.stop
\* where the calling thread goes on once stop() has returned
AfterStop(op, is_master_) ==
    IF op = "stop" THEN IdleCtl
    ELSE [pc |-> IF op = "set_master" THEN "switch" ELSE "restart",
          op |-> op, is_master |-> is_master_]

\* stop() on a running clock up to the join: without a thread the counters
\* are reset at once
StopBegin(op, is_master_) ==
    /\ clock_running' = FALSE
    /\ stop_flag' = TRUE
    /\ IF clock_thread # 0
       THEN /\ clock_ctl' = [pc |-> "join", op |-> op, is_master |-> is_master_]
            /\ UNCHANGED clock_count_vars
       ELSE /\ clock_ctl' = AfterStop(op, is_master_)
            /\ ResetCounters

clock_stop ==
    /\ clock_ctl.pc = "idle"
    /\ last' = [op |-> "clock_stop", raised |-> "none"]
    /\ events' = <<>>
    /\ IF ~clock_running
       THEN UNCHANGED <<clock_running, stop_flag, clock_ctl, clock_count_vars>>
       ELSE StopBegin("stop", is_master)
    /\ UNCHANGED <<sequencer_vars, clock_mode_vars, clock_thread, clock_pcs, clock_out,
                   clock_tempo_vars>>

\* a join that waits for the end of the thread however long it takes
JoinReturns_no_timeout(t) == ~ClockAlive(t)

\* self.clock_thread.join(timeout=1.0) returns when the thread has ended,
\* or after a second in which the thread did not get out of a send
JoinReturns(t) == ~ClockAlive(t) \/ clock_pcs[t] \in {"begin", "send", "hung"}

\* the join of stop() returns; self.clock_thread = None and the counters
\* are reset
clock_join ==
    /\ clock_ctl.pc = "join"
    /\ JoinReturns(clock_thread)
    /\ clock_thread' = 0
    /\ ResetCounters
    /\ clock_ctl' = AfterStop(clock_ctl.op, clock_ctl.is_master)
    /\ UNCHANGED <<sequencer_vars, last, clock_mode_vars, clock_running, stop_flag,
                   clock_pcs, clock_out, clock_tempo_vars, events>>

\* -------------------------------------------------------- MidiClock.set_tempo
\* set_tempo that rejects only a tempo of 0
set_tempo_ok_nonzero(bpm_) == bpm_ # 0

\* if bpm <= 0: log a warning and return
set_tempo_ok(bpm_) == bpm_ > 0

set_tempo(bpm_) ==
    /\ clock_ctl.pc = "idle"
    /\ last' = [op |-> "set_tempo", raised |-> "none"]
    /\ IF ~set_tempo_ok(bpm_)
       THEN /\ events' = <<>>
            /\ UNCHANGED <<tempo, pulse_interval>>
       ELSE /\ tempo' = CentiBpm(bpm_)
            /\ pulse_interval' = PulseInterval(CentiBpm(bpm_))
            /\ events' = <<"tempo">>
    /\ UNCHANGED <<sequencer_vars, clock_mode_vars, clock_run_vars, clock_count_vars,
                   last_pulse_time, now, clock_ctl>>

\* ------------------------------------------------------- MidiClock.set_master
set_master(is_master_) ==
    /\ clock_ctl.pc = "idle"
    /\ last' = [op |-> "set_master", raised |-> "none"]
    /\ events' = <<>>
    /\ IF is_master = is_master_
       THEN UNCHANGED <<is_master, clock_running, stop_flag, clock_ctl, clock_count_vars>>
       ELSE IF clock_running
       THEN StopBegin("set_master", is_master_) /\ UNCHANGED is_master
       ELSE /\ is_master' = is_master_
            /\ UNCHANGED <<clock_running, stop_flag, clock_ctl, clock_count_vars>>
    /\ UNCHANGED <<sequencer_vars, sync_source, inport, clock_thread, clock_pcs, clock_out,
                   clock_tempo_vars>>

\* self.is_master = is_master, after the stop() of set_master
set_master_switch ==
    /\ clock_ctl.pc = "switch"
    /\ is_master' = clock_ctl.is_master
    /\ clock_ctl' = [clock_ctl EXCEPT !.pc = "restart"]
    /\ UNCHANGED <<sequencer_vars, last, sync_source, inport, clock_run_vars,
                   clock_count_vars, clock_tempo_vars, events>>

\* the start() that ends set_master and set_sync_source
clock_restart ==
    /\ clock_ctl.pc = "restart"
    /\ StartBody
    /\ clock_ctl' = IdleCtl
    /\ UNCHANGED <<sequencer_vars, last, is_master, sync_source, clock_count_vars,
                   clock_tempo_vars, events>>

\* -------------------------------------------------- MidiClock.set_sync_source
\* mido.get_input_names()
InputNames == {"in1", "in2"}

\* a set_sync_source that only stores the name
sync_restarts_never == FALSE

\* if self.running and not self.is_master: stop and start
sync_restarts == clock_running /\ ~is_master

set_sync_source(port_name) ==
    /\ clock_ctl.pc = "idle"
    /\ events' = <<>>
    /\ IF port_name \notin InputNames
       THEN /\ last' = [op |-> "set_sync_source_not_found", raised |-> "none"]
            /\ UNCHANGED <<sync_source, clock_running, stop_flag, clock_ctl,
                           clock_count_vars>>
       ELSE /\ last' = [op |-> "set_sync_source", raised |-> "none"]
            /\ sync_source' = Some(port_name)
            /\ IF sync_restarts
               THEN StopBegin("set_sync_source", is_master)
               ELSE UNCHANGED <<clock_running, stop_flag, clock_ctl, clock_count_vars>>
    /\ UNCHANGED <<sequencer_vars, is_master, inport, clock_thread, clock_pcs, clock_out,
                   clock_tempo_vars>>

\* ------------------------------------------------ MidiClock._handle_midi_message
\* a message of the open input port, at the time current_time; the handler
\* returns at once unless the clock runs as a slave
\* a handler that looks at every message
MessageIgnored_never == FALSE

\* if not self.running or self.is_master: return
MessageIgnored == ~clock_running \/ is_master

clock_message(type, current_time) ==
    /\ inport # None
    /\ IF MessageIgnored
       THEN /\ now' = current_time
            /\ UNCHANGED <<tempo, pulse_interval, last_pulse_time, clock_count_vars, events>>
       ELSE CASE type = "clock" -> HandlePulse(current_time)
              [] type = "start" ->
                    /\ ResetCounters
                    /\ events' = <<"start">>
                    /\ now' = current_time
                    /\ UNCHANGED <<tempo, pulse_interval, last_pulse_time>>
              [] type = "stop" ->
                    /\ events' = <<"stop">>
                    /\ now' = current_time
                    /\ UNCHANGED <<tempo, pulse_interval, last_pulse_time, clock_count_vars>>
    /\ UNCHANGED <<sequencer_vars, last, clock_mode_vars, clock_run_vars, clock_ctl>>

\* ------------------------------------------------- a send that never returns
\* a send that waits as long as a send of another loop has not returned
SendWaits_for_hung(loop) ==
    \/ loop # "step" /\ \E t \in 1..MaxThreads : loop_pcs[t] = "hung"
    \/ loop # "scale" /\ \E t \in 1..MaxScaleThreads : scale_pcs[t] = "hung"
    \/ loop # "clock" /\ \E t \in 1..MaxClockThreads : clock_pcs[t] = "hung"

\* MidiDevice.send_note and the master loop call outport.send without a
\* lock or a queue of the program: a send does not wait for another loop
SendWaits(loop) == FALSE

\* play_step of the step loop, with its sends
loop_play(t) ==
    /\ loop_pcs[t] = "play"
    /\ PlayFrom(playback_step, 0).notes = <<>> \/ ~SendWaits("step")
    /\ run_play(t)

\* a send_note of play_step never returns
run_play_hangs(t) ==
    /\ loop_pcs[t] = "play"
    /\ PlayFrom(playback_step, 0).notes # <<>>
    /\ ~SendWaits("step")
    /\ loop_pcs' = [loop_pcs EXCEPT ![t] = "hung"]
    /\ UNCHANGED <<store_vars, caller_vars, last, running, playback_step,
                   sequencer_thread, ctl, joined, sent, ctor_vars, other_vars, tempo_vars, scale_vars>>

\* a tick of the scale loop, with its send
loop_tick(t) ==
    /\ scale_pcs[t] = "tick"
    /\ ~SendWaits("scale")
    /\ scale_tick(t)

\* the send_note of a tick of the scale loop never returns
scale_tick_hangs(t) ==
    /\ scale_pcs[t] = "tick"
    /\ \E octave \in DOMAIN current_scale : current_scale[octave] # <<>>
    /\ ~SendWaits("scale")
    /\ scale_pcs' = [scale_pcs EXCEPT ![t] = "hung"]
    /\ UNCHANGED <<store_vars, caller_vars, transport_vars, ctor_vars, other_vars, tempo_vars, last,
                   current_scale, current_octave, scale_playback, scale_thread,
                   scale_args, scale_sent, scale_late, device_channel>>

\* the sends of the master loop: send_start and the clock message
loop_clock_send(t) ==
    /\ clock_pcs[t] \in {"begin", "send"}
    /\ ~SendWaits("clock")
    /\ clock_begin(t) \/ clock_send(t)

\* a send of the master loop never returns
clock_send_hangs(t) ==
    /\ clock_pcs[t] \in {"begin", "send"}
    /\ ~SendWaits("clock")
    /\ clock_pcs' = [clock_pcs EXCEPT ![t] = "hung"]
    /\ UNCHANGED <<sequencer_vars, last, clock_mode_vars, clock_running, stop_flag,
                   clock_thread, clock_out, clock_count_vars, clock_tempo_vars, clock_ctl, events>>

\* ------------------------------------------------------------------ inputs
\* valid arguments at the ends of their ranges, and every argument once
\* just outside its range
StepValues == {<<TRUE, Some(0), 127>>, <<FALSE, Some(127), 0>>}

SetStepArgs ==
    ({0, 15} \X {0, max_steps - 1} \X StepValues)
    \cup ({-1, 16} \X {0} \X {<<TRUE, Some(0), 127>>})
    \cup ({0} \X {-1, max_steps} \X {<<TRUE, Some(0), 127>>})
    \cup ({0} \X {0} \X {<<TRUE, Some(-1), 100>>, <<TRUE, Some(128), 100>>,
                         <<TRUE, Some(60), -1>>, <<TRUE, Some(60), 128>>})

SlotArgs ==
    ({0, 15} \X {0, max_steps - 1}) \cup ({-1, 16} \X {0}) \cup ({0} \X {-1, max_steps})

ChannelArgs == {-1, 0, 15, 16}

LengthArgs ==
    ({0, 15} \X {1, max_steps}) \cup ({-1, 16} \X {1}) \cup ({0} \X {0, max_steps + 1})

CopyArgs == ({0, 15} \X {0, 15}) \cup {<<-1, 0>>, <<16, 0>>, <<0, -1>>, <<0, 16>>}

MutateArgs == {<<"active", TRUE>>, <<"note", Some(1)>>, <<"velocity", 1>>}

\* scales: none, one octave, two octaves with a note above 127, an octave
\* without notes
ScaleArgs ==
    {<<>>,
     (2 :> <<127>>),
     (-1 :> <<128>>) @@ (2 :> <<127>>),
     (0 :> <<>>)}

\* scales of one octave: one note, another note, no note
SingleOctaveArgs == {(2 :> <<127>>), (1 :> <<0>>), (0 :> <<>>)}

\* note_chance and octave_chance in tenths
ChanceArgs == {<<0, 0>>, <<5, 5>>, <<10, 0>>, <<10, 10>>}

\* tempos: negative, zero, and two valid ones
BpmArgs == {-1, 0, 60, 120}

\* scale playback: chances that take every branch, a channel that is and
\* one that is not the device's first channel
ScaleChanceArgs == {<<5, 5>>}

\* scales that are played: none, one octave, two octaves with a note above 127
ScalePlayArgs == {<<>>, (2 :> <<127>>), (-1 :> <<128>>) @@ (2 :> <<127>>)}

ScaleChannelArgs == {0, 1}

DeviceChannelArgs == {0, 1}

\* ---------------------------------------------------------- specifications
\* the pattern store under the calls of one thread
PatternNext ==
    \/ \E a \in SetStepArgs : set_step(a[1], a[2], a[3][1], a[3][2], a[3][3])
    \/ \E c \in ChannelArgs : clear_channel(c)
    \/ \E a \in LengthArgs : set_channel_steps(a[1], a[2])
    \/ \E a \in CopyArgs : copy_channel_pattern(a[1], a[2])

PatternSpec == Init /\ [][PatternNext]_vars

\* a caller that changes the dictionaries it gets from get_step
CallerNext ==
    \/ \E a \in {0} \X {0, max_steps - 1} \X StepValues :
          set_step(a[1], a[2], a[3][1], a[3][2], a[3][3])
    \/ \E a \in SlotArgs : get_step(a[1], a[2])
    \/ \E a \in MutateArgs : mutate_returned(a[1], a[2])
    \/ set_channel_steps(0, 1)

CallerSpec == Init /\ [][CallerNext]_vars

\* random pattern fills of channel 0 among the other pattern calls
FillNext ==
    \/ \E c \in {0, 16}, scale_dict \in ScaleArgs, a \in ChanceArgs :
          apply_random_pattern_from_scale(c, scale_dict, a[1], a[2])
    \/ set_step(0, 0, FALSE, Some(127), 0)
    \/ clear_channel(0)
    \/ \E steps \in {1, max_steps} : set_channel_steps(0, steps)

FillSpec == Init /\ [][FillNext]_vars

\* fills of channel 0 from one octave with note_chance 1.0 and
\* octave_chance 0.0, over patterns of every length
FullFillNext ==
    \/ \E scale_dict \in SingleOctaveArgs :
          apply_random_pattern_from_scale(0, scale_dict, 10, 0)
    \/ set_step(0, 0, FALSE, Some(127), 0)
    \/ clear_channel(0)
    \/ \E steps \in {1, max_steps} : set_channel_steps(0, steps)

FullFillSpec == Init /\ [][FullFillNext]_vars

\* fills of channel 0 with draws on both sides of the chances, from every
\* scale, next to a channel with a stored step
FillContractNext ==
    \/ \E channel \in {0, 16}, scale_dict \in ScaleArgs :
          apply_random_pattern_from_scale(channel, scale_dict, 5, 5)
    \/ set_step(15, 0, TRUE, Some(0), 127)
    \/ \E steps \in {1, max_steps} : set_channel_steps(0, steps)

\* constructor calls with steps_per_bar within max_steps
FillContractInit == Init /\ steps_per_bar <= max_steps

FillContractSpec == FillContractInit /\ [][FillContractNext]_vars

\* the playback loop under start and stop, with edits of channel 0
TransportNext ==
    \/ start
    \/ stop
    \/ stop_join
    \/ \E t \in 1..MaxThreads : run_while(t) \/ run_play(t) \/ run_advance(t)
    \/ \E a \in {0, 15} \X {0, max_steps - 1} :
          set_step(a[1], a[2], TRUE, Some(0), 127)
    \/ \E steps \in {1, max_steps} : set_channel_steps(0, steps)

TransportSpec == Init /\ [][TransportNext]_vars

\* start() and stop() called by two threads: a start() can come while the
\* caller of stop() waits in its join()
RaceNext ==
    \/ start
    \/ stop
    \/ stop_join
    \/ start_during_join
    \/ \E t \in 1..MaxThreads : run_while(t) \/ run_play(t) \/ run_advance(t)
    \/ set_step(0, 0, TRUE, Some(0), 127)

RaceSpec == Init /\ [][RaceNext]_vars

\* tempo changes while the playback loop starts, runs and stops
TempoNext ==
    \/ \E bpm_ \in BpmArgs : set_bpm(bpm_)
    \/ start
    \/ stop
    \/ stop_join
    \/ \E t \in 1..MaxThreads : run_while(t) \/ run_play(t) \/ run_advance(t)

TempoSpec == Init /\ [][TempoNext]_vars

\* scale playback under start_scale_playback, stop_scale_playback and
\* changes of the device's channel
ScaleNext ==
    \/ \E scale_dict \in ScalePlayArgs, a \in ScaleChanceArgs, channel \in ScaleChannelArgs :
          start_scale_playback(scale_dict, a[1], a[2], channel)
    \/ stop_scale_playback
    \/ \E t \in 1..MaxScaleThreads : scale_while(t) \/ scale_tick(t) \/ scale_sleep(t)
    \/ \E channel \in DeviceChannelArgs : set_channel(channel)

\* scale playback does not read the patterns: one constructor call is enough
ScaleInit == Init /\ max_steps = MaxStepsBound /\ steps_per_bar = max_steps

ScaleSpec == ScaleInit /\ [][ScaleNext]_vars

\* scale playback on a device whose channel stays as it is
ScaleStopNext ==
    \/ \E scale_dict \in ScalePlayArgs, a \in ScaleChanceArgs :
          start_scale_playback(scale_dict, a[1], a[2], 0)
    \/ stop_scale_playback
    \/ \E t \in 1..MaxScaleThreads : scale_while(t) \/ scale_tick(t) \/ scale_sleep(t)

\* every scale thread that can take a step eventually takes one: the
\* scheduler runs every thread, and send_note and time.sleep return
ScaleFairSpec ==
    /\ ScaleInit
    /\ [][ScaleStopNext]_vars
    /\ \A t \in 1..MaxScaleThreads :
          WF_vars(scale_while(t) \/ scale_tick(t) \/ scale_sleep(t))

\* the master clock: started and stopped while its loop sends and handles
\* pulses
ClockCountNext ==
    \/ clock_start
    \/ clock_stop
    \/ clock_join
    \/ \E t \in 1..MaxClockThreads :
          \/ clock_enter(t)
          \/ clock_begin(t)
          \/ clock_while(t, pulse_count < MaxPulses)
          \/ clock_send(t)
          \/ clock_handle(t, now)

ClockCountSpec == ScaleInit /\ [][ClockCountNext]_vars

\* milliseconds between two messages of the input port
PulseGaps == {0, 20}

\* the times of the next message of the input port
MessageTimes == {now + gap : gap \in PulseGaps}

TempoArgs == {-1, 0, 60}

SourceArgs == {"in1", "in2", "nowhere"}

\* the clock switched between its modes while its master loop runs
ClockModeNext ==
    \/ clock_start
    \/ clock_stop
    \/ clock_join
    \/ \E is_master_ \in BOOLEAN : set_master(is_master_)
    \/ set_master_switch
    \/ clock_restart
    \/ \E t \in 1..MaxClockThreads :
          \/ clock_enter(t)
          \/ clock_begin(t)
          \/ clock_while(t, pulse_count < MaxClockPulses)
          \/ clock_send(t)
          \/ clock_handle(t, now)

ClockModeSpec == ScaleInit /\ [][ClockModeNext]_vars

\* the times of the next pulse of the master loop, as long as the time
\* source of the model goes on
PulseTimes == IF now < StartTime + MaxTimeSteps * 20 THEN MessageTimes ELSE {now}

\* the master clock and its tempo, with pulses at the time of the one
\* before and later
ClockTempoNext ==
    \/ clock_start
    \/ clock_stop
    \/ clock_join
    \/ \E bpm_ \in TempoArgs : set_tempo(bpm_)
    \/ \E t \in 1..MaxClockThreads :
          \/ clock_enter(t)
          \/ clock_begin(t)
          \/ clock_while(t, pulse_count < MaxClockPulses)
          \/ clock_send(t)
          \/ \E current_time \in PulseTimes : clock_handle(t, current_time)

ClockTempoSpec == ScaleInit /\ [][ClockTempoNext]_vars

\* the clock made a slave, its source, and the messages of the input port;
\* a master loop started before the clock is made a slave stays inside its
\* first send
ClockSlaveNext ==
    \/ clock_start
    \/ clock_stop
    \/ clock_join
    \/ \E is_master_ \in BOOLEAN : set_master(is_master_)
    \/ set_master_switch
    \/ clock_restart
    \/ \E t \in 1..MaxClockThreads : clock_enter(t)
    \/ \E port_name \in SourceArgs : set_sync_source(port_name)
    \/ /\ now < StartTime + MaxTimeSteps * 20
       /\ \E type \in {"clock", "start", "stop"}, current_time \in MessageTimes :
             clock_message(type, current_time)

ClockSlaveSpec == ScaleInit /\ [][ClockSlaveNext]_vars

\* the steps the callers store while the loop plays
PlayStepValues == {<<TRUE, Some(60), 100>>, <<TRUE, Some(61), 90>>}

\* play_step, one read at a time, while the callers replace steps and
\* patterns of channels 0 and 1
PlayNext ==
    \/ \E channel \in {0, 1}, v \in PlayStepValues : set_step(channel, 0, v[1], v[2], v[3])
    \/ clear_channel(0)
    \/ \E steps \in {1, max_steps} : set_channel_steps(0, steps)
    \/ \E a \in {<<0, 1>>, <<1, 0>>} : copy_channel_pattern(a[1], a[2])
    \/ play_begin
    \/ play_fetch
    \/ play_active
    \/ play_note
    \/ play_arg
    \/ play_send
    \/ play_advance

PlaySpec == ScaleInit /\ [][PlayNext]_vars

\* the three loops started on a pattern with one note, and sends that
\* never return
HangNext ==
    \/ set_step(0, 0, TRUE, Some(60), 100)
    \/ start
    \/ start_scale_playback((2 :> <<127>>), 5, 5, 0)
    \/ clock_start
    \/ \E t \in 1..MaxThreads :
          run_while(t) \/ loop_play(t) \/ run_advance(t) \/ run_play_hangs(t)
    \/ \E t \in 1..MaxScaleThreads :
          scale_while(t) \/ loop_tick(t) \/ scale_sleep(t) \/ scale_tick_hangs(t)
    \/ \E t \in 1..MaxClockThreads :
          \/ clock_enter(t)
          \/ loop_clock_send(t)
          \/ clock_while(t, pulse_count < MaxClockPulses)
          \/ clock_handle(t, now)
          \/ clock_send_hangs(t)

\* a step of the step loop of thread t is enabled
LoopReady(t) ==
    \/ loop_pcs[t] \in {"while", "sleep"}
    \/ /\ loop_pcs[t] = "play"
       /\ PlayFrom(playback_step, 0).notes = <<>> \/ ~SendWaits("step")

\* a step of the scale loop of thread t is enabled
ScaleReady(t) ==
    \/ scale_pcs[t] \in {"while", "sleep"}
    \/ scale_pcs[t] = "tick" /\ ~SendWaits("scale")

\* a step of the master loop of thread t is enabled
ClockReady(t) ==
    \/ clock_pcs[t] \in {"entry", "handle"}
    \/ clock_pcs[t] = "while" /\ (pulse_count < MaxClockPulses \/ ~clock_running \/ stop_flag)
    \/ clock_pcs[t] \in {"begin", "send"} /\ ~SendWaits("clock")

\* every loop that can take a step eventually takes one: the scheduler runs
\* every thread, and a send or a sleep that is not the one that hangs
\* returns.  This is weak fairness of the steps of every thread, WF_vars,
\* with the condition under which a step is enabled written out.
HangFairSpec ==
    /\ ScaleInit
    /\ [][HangNext]_vars
    /\ \A t \in 1..MaxThreads :
          \/ []<>(~LoopReady(t))
          \/ []<><<run_while(t) \/ loop_play(t) \/ run_advance(t)>>_vars
    /\ \A t \in 1..MaxScaleThreads :
          \/ []<>(~ScaleReady(t))
          \/ []<><<scale_while(t) \/ loop_tick(t) \/ scale_sleep(t)>>_vars
    /\ \A t \in 1..MaxClockThreads :
          \/ []<>(~ClockReady(t))
          \/ []<><<\/ clock_enter(t)
                   \/ loop_clock_send(t)
                   \/ clock_while(t, pulse_count < MaxClockPulses)
                   \/ clock_handle(t, now)>>_vars

\* milliseconds between two pulses of a steady source
SteadyGap == 20

\* a slave clock, started and stopped, on a source of steady pulses
ClockSteadyNext ==
    \/ clock_start
    \/ clock_stop
    \/ clock_join
    \/ set_master(FALSE)
    \/ set_master_switch
    \/ clock_restart
    \/ \E t \in 1..MaxClockThreads : clock_enter(t)
    \/ set_sync_source("in1")
    \/ /\ now < StartTime + MaxSteadyPulses * SteadyGap
       /\ clock_message("clock", now + SteadyGap)

ClockSteadySpec == ScaleInit /\ [][ClockSteadyNext]_vars

\* -------------------------------------------------------------- properties
\* the step is a call of op that returned
Returned(op) == last' = [op |-> op, raised |-> "none"]

\* the ranges the specification gives for the arguments of set_step
InRange(channel, step, note, velocity) ==
    /\ channel \in 0..15
    /\ step \in 0..(max_steps - 1)
    /\ note = None \/ note[1] \in 0..127
    /\ velocity \in 0..127

\* C1: directly after a successful set_step(channel, step, active, note,
\* velocity), get_step(channel, step) succeeds and returns exactly the
\* active, note and velocity that were set.
C1_RoundTrip ==
    [][Returned("set_step") => \A a \in SetStepArgs :
          set_step(a[1], a[2], a[3][1], a[3][2], a[3][3])
          => /\ get_step_ok(a[1], a[2])'
             /\ get_step_returns(a[1], a[2])' =
                    Some([active |-> a[3][1], note |-> a[3][2], velocity |-> a[3][3]])]_vars

C1_Witness ==
    /\ last = [op |-> "set_step", raised |-> "none"]
    /\ max_steps > 1
    /\ Slot(15, max_steps - 1) = [active |-> FALSE, note |-> Some(127), velocity |-> 0]
    /\ Slot(0, 0) = [active |-> TRUE, note |-> Some(0), velocity |-> 127]

C3_LengthFrame ==
    [][Returned("set_channel_steps") => \A a \in LengthArgs :
          set_channel_steps(a[1], a[2])
          => /\ \A i \in 0..(a[2] - 1) : Slot(a[1], i)' = Slot(a[1], i)
             /\ \A c \in Channels \ {a[1]} :
                   /\ Stored'[c] = Stored[c]
                   /\ channel_lengths'[c] = channel_lengths[c]]_vars

C3_Witness ==
    /\ last = [op |-> "set_channel_steps", raised |-> "none"]
    /\ max_steps = 2
    /\ channel_lengths[0] = 2
    /\ Slot(0, 0) # DefaultStep
    /\ Slot(0, 1) # DefaultStep
    /\ Slot(15, 1) # DefaultStep

\* C4: set_step raises the range error and changes no pattern slot whenever
\* the channel is outside 0..15, the step outside 0..max_steps-1, a present
\* note outside 0..127 or the velocity outside 0..127.
C4_RangeErrors ==
    [][last'.op = "set_step" => \A a \in SetStepArgs :
          (~InRange(a[1], a[2], a[3][2], a[3][3])
             /\ set_step(a[1], a[2], a[3][1], a[3][2], a[3][3]))
          => /\ last' = [op |-> "set_step", raised |-> "ValueError"]
             /\ Stored' = Stored]_vars

C4_Witness ==
    /\ last = [op |-> "set_step", raised |-> "ValueError"]
    /\ Slot(0, 0) # DefaultStep

\* C5: changing a field of the dictionary get_step returned changes no
\* stored step: a later get_step of any channel and step returns what it
\* returned before, and the playback loop sends what it sent before.
C5_ReturnedCopy ==
    [][\A a \in MutateArgs :
          mutate_returned(a[1], a[2])
          => /\ Stored' = Stored
             /\ \A c \in Channels, s \in Range(max_steps) :
                   get_step_returns(c, s)' = get_step_returns(c, s)
             /\ \A s \in Range(max_steps) : PlayFrom(s, 0)' = PlayFrom(s, 0)]_vars

C5_Witness ==
    /\ last = [op |-> "mutate_returned", raised |-> "none"]
    /\ ret = Some([active |-> TRUE, note |-> Some(0), velocity |-> 1])
    /\ Slot(0, 0) = [active |-> TRUE, note |-> Some(0), velocity |-> 127]

\* C6: after copy_channel_pattern(source, target) every one of the max_steps
\* slots of target equals the slot of source, also at and above the
\* source's length; and a set_step on a channel changes the slots of no
\* other channel, so a later set_step on source does not change target.
C6_DeepCopy ==
    [][/\ Returned("copy_channel_pattern") => \A a \in CopyArgs :
             copy_channel_pattern(a[1], a[2])
             => /\ DOMAIN PatternOf(a[2])' = Range(max_steps)
                /\ \A s \in Range(max_steps) :
                      /\ Slot(a[2], s)' = Slot(a[1], s)
                      /\ Slot(a[2], s)' = Slot(a[1], s)'
       /\ Returned("set_step") => \A a \in SetStepArgs :
             set_step(a[1], a[2], a[3][1], a[3][2], a[3][3])
             => \A c \in Channels \ {a[1]} : Stored'[c] = Stored[c]]_vars

C6_Witness ==
    /\ last = [op |-> "copy_channel_pattern", raised |-> "none"]
    /\ max_steps = 2
    /\ channel_lengths[0] = 1
    /\ Slot(0, 1) # DefaultStep
    /\ Stored[15] = Stored[0]

\* C7: in every reachable state each of the 16 channels has a pattern with
\* exactly the slot indices 0..max_steps-1.
C7_ExactSlots ==
    \A c \in Channels : DOMAIN PatternOf(c) = Range(max_steps)

\* C8: in every reachable state, the constructor's included, every channel
\* length is in 1..max_steps.
C8_LengthInRange ==
    \A c \in Channels : channel_lengths[c] \in 1..max_steps

\* C9: in every reachable state every stored step has a velocity in 0..127
\* and, when a note is present, a note in 0..127.
C9_MidiRanges ==
    \A c \in Channels : \A s \in DOMAIN PatternOf(c) :
        /\ Slot(c, s).velocity \in 0..127
        /\ Slot(c, s).note # None => Slot(c, s).note[1] \in 0..127

\* C10: start() on a running sequencer spawns no playback loop and changes
\* neither running nor playback_step.
C10_StartIdempotent ==
    [][(running /\ start)
       => UNCHANGED <<running, playback_step, loop_pcs, sequencer_thread>>]_vars

C10_Witness ==
    /\ last = [op |-> "start_running", raised |-> "none"]
    /\ running
    /\ Alive(sequencer_thread)
    /\ playback_step > 0

\* C11: once stop() has returned and until the next start(), no playback
\* thread is alive and no play_step, hence no send_note of the step loop,
\* takes place, whatever sequence of start() and stop() calls came before.
C11_NoPlayAfterStop ==
    [][(ctl = "idle" /\ ~running) =>
          \A t \in 1..MaxThreads : ~Alive(t) /\ ~run_play(t)]_vars

\* stop() has returned after a loop that sent notes, and the loop has ended
C11_Witness ==
    /\ last = [op |-> "stop", raised |-> "none"]
    /\ ctl = "idle"
    /\ ~running
    /\ sequencer_thread # 0
    /\ loop_pcs[sequencer_thread] = "done"
    /\ sent # <<>>

\* C12: in every reachable state playback_step is at most
\* channel_lengths[0] - 1, also across stop() and start() and when
\* set_channel_steps(0, L) is called while the loop runs (stated for a
\* sequencer constructed with steps_per_bar <= max_steps).
C12_StepBelowLength ==
    steps_per_bar <= max_steps => playback_step <= channel_lengths[0] - 1

\* C13: a play_step of the loop that found its step in every pattern, so
\* that only a send_note call can have failed in it, leaves the loop thread
\* alive: the sequencer stays running with a live loop.
C13_LoopSurvivesSendError ==
    [][\A t \in 1..MaxThreads :
          (run_play(t) /\ PlayFrom(playback_step, 0).raised # "KeyError")
              => Alive(t)']_vars

\* C14: stop() never raises and leaves running false, whether the
\* sequencer was never started, was stopped before, or has a loop that an
\* error ended; the thread it joins is one that was started.
C14_StopNeverFails ==
    /\ last.op = "stop" => (last.raised = "none" /\ ~running)
    /\ ctl = "joining" => (sequencer_thread # 0 /\ loop_pcs[sequencer_thread] # "none")

\* stop() has returned although an exception had ended the loop thread
C14_Witness ==
    /\ last = [op |-> "stop", raised |-> "none"]
    /\ ctl = "idle"
    /\ ~running
    /\ sequencer_thread # 0
    /\ loop_pcs[sequencer_thread] = "failed"

\* C15: set_bpm(bpm) with bpm <= 0 raises ValueError and leaves bpm and
\* step_time as they were, so that a running loop keeps the step duration
\* it had.
C15_BadBpmRejected ==
    [][\A bpm_ \in BpmArgs : (bpm_ <= 0 /\ set_bpm(bpm_)) =>
          /\ last' = [op |-> "set_bpm", raised |-> "ValueError"]
          /\ bpm' = bpm
          /\ step_time' = step_time]_vars

\* a rejected set_bpm while the loop sleeps with the tempo of an earlier call
C15_Witness ==
    /\ last = [op |-> "set_bpm", raised |-> "ValueError"]
    /\ running
    /\ \E t \in 1..MaxThreads : loop_pcs[t] = "sleep"
    /\ bpm = 60
    /\ step_time = StepTime(60, steps_per_bar)

\* C16: start_scale_playback on a scale that is not empty returns with
\* current_octave the smallest octave of the scale, with scale_playback
\* set, and with a new scale thread at the head of its loop.
C16_ScaleStart ==
    [][Returned("start_scale_playback") =>
          \A scale_dict \in ScalePlayArgs, a \in ScaleChanceArgs, channel \in ScaleChannelArgs :
              (DOMAIN scale_dict # {}
               /\ start_scale_playback(scale_dict, a[1], a[2], channel)) =>
                  /\ current_octave' \in DOMAIN scale_dict
                  /\ \A octave \in DOMAIN scale_dict : current_octave' <= octave
                  /\ scale_playback'
                  /\ \E t \in 1..MaxScaleThreads :
                        /\ ~ScaleAlive(t)
                        /\ scale_pcs'[t] = "while"
                        /\ scale_thread' = t
                        /\ \A u \in 1..MaxScaleThreads \ {t} : scale_pcs'[u] = scale_pcs[u]]_vars

\* scale playback was started on the scale of two octaves
C16_Witness ==
    /\ last = [op |-> "start_scale_playback", raised |-> "none"]
    /\ DOMAIN current_scale = {-1, 2}
    /\ current_octave = -1
    /\ scale_playback
    /\ scale_thread # 0
    /\ scale_pcs[scale_thread] = "while"

\* the step is a tick of scale thread t that sent a note
ScaleSends(t) == scale_tick(t) /\ scale_sent' # None

\* C17 as stated: every note of a scale thread is sent on the channel
\* start_scale_playback was given for it.
C17_ChannelFixedAtStart ==
    [][\A t \in 1..MaxScaleThreads :
          ScaleSends(t) => scale_sent'[1][2] = scale_args[t][3]]_vars

\* C17, amended: every note of a scale thread is sent on the channel the
\* MIDI device has at the time of the send, whatever channel
\* start_scale_playback was given; set_channel changes the channel of the
\* notes sent after it.
C17_ChannelOfDevice ==
    [][\A t \in 1..MaxScaleThreads :
          ScaleSends(t) => scale_sent'[1][2] = device_channel]_vars

\* a thread started with one channel has sent a note on another one, the
\* one set_channel gave the device
C17_Witness ==
    /\ scale_sent # None
    /\ \E t \in 1..MaxScaleThreads :
          /\ scale_pcs[t] = "sleep"
          /\ \A u \in 1..MaxScaleThreads \ {t} : ~ScaleAlive(u)
          /\ scale_args[t][3] = 0
          /\ scale_sent[1][2] = 1
          /\ device_channel = 1

\* C18: after stop_scale_playback and as long as start_scale_playback is
\* not called again, every scale thread sends at most one more note, and
\* eventually no scale thread is alive.
C18_ScaleStops ==
    /\ [](\A t \in 1..MaxScaleThreads : scale_late[t] <= 1)
    /\ (~scale_playback) ~> (scale_playback \/ \A t \in 1..MaxScaleThreads : ~ScaleAlive(t))

\* stop_scale_playback was called during a tick: the thread sent the note
\* of that tick and then left its loop
C18_Witness ==
    /\ ~scale_playback
    /\ \E t \in 1..MaxScaleThreads : scale_late[t] = 1 /\ scale_pcs[t] = "done"

\* C19: apply_random_pattern_from_scale(channel, scale, 1.0, 0.0) with a
\* scale of one octave, when it returns, has left every step below the
\* channel's length active with a note of that octave's list, whatever the
\* random draws were.
C19_FullPattern ==
    [][Returned("apply_random_pattern_from_scale") =>
          \A scale_dict \in SingleOctaveArgs :
              (Cardinality(DOMAIN scale_dict) = 1
               /\ apply_random_pattern_from_scale(0, scale_dict, 10, 0)) =>
                  \A step \in Range(channel_lengths[0]) :
                      /\ step \in DOMAIN PatternOf(0)'
                      /\ Slot(0, step)'.active
                      /\ Slot(0, step)'.note # None
                      /\ \E octave \in DOMAIN scale_dict :
                            Slot(0, step)'.note[1] \in Choice(scale_dict[octave])]_vars

\* a fill has returned with every step of a channel of two steps or more
\* active
C19_Witness ==
    /\ last = [op |-> "apply_random_pattern_from_scale", raised |-> "none"]
    /\ channel_lengths[0] >= 2
    /\ \A step \in Range(channel_lengths[0]) :
          /\ step \in DOMAIN PatternOf(0)
          /\ Slot(0, step).active
          /\ Slot(0, step).note = Some(0)
    /\ Slot(0, 0).velocity # Slot(0, 1).velocity

\* C20: apply_random_pattern_from_scale(channel, scale, 0.0, octave_chance)
\* leaves every step of the channel at its default, for every scale and
\* every draw of the random numbers, a draw of exactly 0 included.
C20_ZeroChanceWritesNothing ==
    [][last'.op = "apply_random_pattern_from_scale" =>
          \A scale_dict \in ScaleArgs, a \in ChanceArgs :
              (a[1] = 0 /\ apply_random_pattern_from_scale(0, scale_dict, a[1], a[2])) =>
                  \A step \in DOMAIN PatternOf(0)' : Slot(0, step)' = DefaultStep]_vars

\* C21: after apply_random_pattern_from_scale(0, scale, ...), however it
\* ended, every slot of channel 0 from the channel's length on is default,
\* every active slot has a note of the scale and a velocity in 80..100,
\* and the channel's length and the patterns of the other channels are as
\* they were.
C21_FillContract ==
    [][(last'.op = "apply_random_pattern_from_scale" /\ last'.raised # "KeyError") =>
          /\ \A step \in DOMAIN PatternOf(0)' :
                /\ step >= channel_lengths[0] => Slot(0, step)' = DefaultStep
                /\ Slot(0, step)'.active =>
                      /\ Slot(0, step)'.note # None
                      /\ \E octave \in DOMAIN fill_scale' :
                            Slot(0, step)'.note[1] \in Choice(fill_scale'[octave])
                      /\ Slot(0, step)'.velocity \in 80..100
          /\ channel_lengths' = channel_lengths
          /\ \A c \in Channels \ {0} : PatternOf(c)' = PatternOf(c)]_vars

\* a fill from the scale of two octaves wrote step 0 and skipped step 1,
\* while channel 15 holds a step
C21_Witness ==
    /\ last = [op |-> "apply_random_pattern_from_scale", raised |-> "none"]
    /\ DOMAIN fill_scale = {-1, 2}
    /\ max_steps >= 2
    /\ channel_lengths[0] >= 2
    /\ Slot(0, 0).active
    /\ Slot(0, 0).note = Some(128)
    /\ Slot(0, 1) = DefaultStep
    /\ Slot(15, 0).active

StoppedByStop ==
    /\ ~clock_running
    /\ clock_ctl.pc = "idle"
    /\ last = [op |-> "clock_stop", raised |-> "none"]

\* C23: stop() called in Stopped changes nothing and does not fail, and
\* whenever the clock is Stopped after a stop() has returned, pulse_count,
\* current_beat and current_bar are zero, until the next start()
C23_StoppedCountersZero ==
    /\ [](StoppedByStop => pulse_count = 0 /\ current_beat = 0 /\ current_bar = 0)
    /\ [][(~clock_running /\ clock_ctl.pc = "idle" /\ last' # last /\ Returned("clock_stop"))
             => UNCHANGED <<sequencer_vars, clock_mode_vars, clock_run_vars,
                            clock_count_vars, clock_tempo_vars, clock_ctl>>]_vars

\* C24: between the return of stop() and the next start() the master loop
\* sends no clock message and handles no pulse, and no loop is left
C24_NoPulseAfterStop ==
    /\ [](StoppedByStop => \A t \in 1..MaxClockThreads : ~ClockAlive(t))
    /\ [][StoppedByStop =>
             /\ handled' = handled \/ handled' = 0
             /\ \A t \in 1..MaxClockThreads :
                   ~(clock_pcs[t] = "send" /\ clock_pcs'[t] = "handle")]_vars

\* C25: is_master never changes while a master loop is still active;
\* set_master(m) on a running clock of the other mode stops it, switches
\* and restarts it, and ends with running true and is_master = m; on a
\* stopped clock it changes only the mode
C25_ModeFixedWhileRunning ==
    /\ [][is_master' # is_master => \A t \in 1..MaxClockThreads : ~ClockAlive(t)]_vars
    /\ [][(clock_ctl.op = "set_master" /\ clock_ctl'.pc = "idle")
             => clock_running' /\ is_master' = clock_ctl.is_master]_vars
    /\ [][(is_master' # is_master /\ clock_ctl.pc = "idle")
             => UNCHANGED <<sequencer_vars, sync_source, inport, clock_run_vars,
                            clock_count_vars, clock_tempo_vars, clock_ctl>>]_vars

\* C26: set_tempo(bpm) with bpm <= 0 does not fail, leaves tempo,
\* pulse_interval, the counters and the running state as they are, and
\* publishes no event
C26_BadTempoIgnored ==
    [][\A bpm_ \in {b \in TempoArgs : b <= 0} :
          set_tempo(bpm_) =>
             /\ last' = [op |-> "set_tempo", raised |-> "none"]
             /\ events' = <<>>
             /\ UNCHANGED <<tempo, pulse_interval, clock_count_vars, clock_running>>]_vars

C26_Witness ==
    /\ last = [op |-> "set_tempo", raised |-> "none"]
    /\ events = <<>>
    /\ clock_running
    /\ tempo = CentiBpm(60)
    /\ is_master
    /\ \A t \in 1..MaxClockThreads : clock_pcs[t] \in {"none", "begin"}

\* set_sync_source with a name that is not an input reports the failure
\* and leaves sync_source and the running state as they are
SyncSourceNotFound ==
    [][\A port_name \in SourceArgs \ InputNames :
          set_sync_source(port_name) =>
             /\ last' = [op |-> "set_sync_source_not_found", raised |-> "none"]
             /\ UNCHANGED <<sync_source, clock_running, clock_ctl>>]_vars

\* C27 as stated: an unknown name is reported and changes nothing, and a
\* valid name given while the clock runs as a slave leaves the listening
\* clock as it is
C27_SyncSourceKeepsLoop ==
    /\ SyncSourceNotFound
    /\ [][\A port_name \in SourceArgs \cap InputNames :
             (clock_running /\ ~is_master /\ inport # None /\ set_sync_source(port_name))
                => UNCHANGED <<clock_running, inport, clock_count_vars>>]_vars

\* C27, amended: an unknown name is reported and changes nothing; a valid
\* name given while the clock runs as a slave stops the clock at once,
\* which resets the counters, and restarts it, and the call ends with the
\* clock running as a slave on the port of the new source, or on the port
\* of before when the new one could not be opened
C27_SyncSourceRestarts ==
    /\ SyncSourceNotFound
    /\ [][\A port_name \in SourceArgs \cap InputNames :
             (clock_running /\ ~is_master /\ set_sync_source(port_name))
                => /\ sync_source' = Some(port_name)
                   /\ ~clock_running'
                   /\ pulse_count' = 0 /\ current_beat' = 0 /\ current_bar' = 0
                   /\ clock_ctl'.pc = "restart"]_vars
    /\ [][(clock_ctl.op = "set_sync_source" /\ clock_ctl'.pc = "idle")
             => /\ clock_running' /\ ~is_master'
                /\ inport' \in {sync_source, inport}]_vars

C27_Witness ==
    /\ clock_ctl.pc = "restart"
    /\ clock_ctl.op = "set_sync_source"
    /\ inport = Some("in1")
    /\ sync_source = Some("in2")
    /\ last_pulse_time > 0

\* the tempo of a source with a pulse every SteadyGap milliseconds
SteadyTempo == EstimatedTempo(SteadyGap)

\* C30: in slave mode with pulses at a constant interval, every pulse the
\* tempo is estimated from moves the tempo toward the tempo of the source,
\* also when the clock was stopped and restarted before the pulse
C30_TempoApproachesSource ==
    [][(~is_master /\ last_pulse_time > 0 /\ handled' = handled + 1)
          => Abs(tempo' - SteadyTempo) <= Abs(tempo - SteadyTempo)]_vars

\* C29: whatever set_step, clear_channel, set_channel_steps and
\* copy_channel_pattern do between the reads of play_step, the note and the
\* velocity of every note the loop emits are those of one whole step stored
\* in the slot: the one the loop fetched or the one stored there now
C29_WholeStepPlayed ==
    [][(step_pc = "send" /\ step_pc' \in {"fetch", "sleep"}) =>
          \E v \in {step_data} \cup
                   (IF playback_step \in DOMAIN PatternOf(step_channel)
                    THEN {Slot(step_channel, playback_step)} ELSE {}) :
             /\ v.note # None
             /\ emitted' = <<v.note[1], step_channel, v.velocity>>]_vars

C29_Witness ==
    /\ step_pc = "send"
    /\ step_channel = 0
    /\ step_note = Some(60)
    /\ step_data = NewStep(TRUE, Some(60), 100)
    /\ Slot(0, playback_step) = NewStep(TRUE, Some(61), 90)
    /\ emitted = <<61, 1, 90>>

ActiveChannels(step) ==
    {c \in Channels : /\ step \in DOMAIN PatternOf(c)
                      /\ Slot(c, step).active
                      /\ Slot(c, step).note # None}

\* the play_step of thread t ended without an exception
PlayStepReturned(t) == run_play(t) /\ loop_pcs'[t] = "sleep"

\* the notes of a play_step are those of active slots with a note, one for
\* a channel at most, in increasing channel order, and with the slot's note
\* and velocity
SentFromActiveSlots ==
    /\ \A i \in DOMAIN sent' :
          /\ sent'[i][2] \in ActiveChannels(playback_step)
          /\ sent'[i] = <<Slot(sent'[i][2], playback_step).note[1], sent'[i][2],
                          Slot(sent'[i][2], playback_step).velocity>>
    /\ \A i, j \in DOMAIN sent' : i < j => sent'[i][2] < sent'[j][2]

\* the channels of the notes of the latest play_step
SentChannels == {sent[i][2] : i \in DOMAIN sent}

\* C31: one play_step at step s calls send_note once for every channel
\* whose slot at s is active with a note present, in increasing channel
\* order, with the slot's note and velocity and the channel, and makes no
\* call for the other slots; the call that raised counts as made
C31_EveryActiveChannelSent ==
    [][\A t \in 1..MaxThreads : run_play(t) =>
          /\ SentFromActiveSlots
          /\ \A c \in ActiveChannels(playback_step) :
                \/ c \in SentChannels'
                \/ /\ loop_pcs'[t] = "failed"
                   /\ \A d \in ActiveChannels(playback_step) \ SentChannels' : c <= d]_vars

\* a play_step that ended without an exception has sent the note of every
\* active slot with a note
PlayStepSendsAll ==
    [][\A t \in 1..MaxThreads : PlayStepReturned(t) =>
          /\ SentFromActiveSlots
          /\ SentChannels' = ActiveChannels(playback_step)]_vars

\* C34: a tick of the scale loop whose first draw is greater than
\* note_chance sends no note and leaves current_octave as it is, and a
\* tick changes current_octave only when its first draw is at most
\* note_chance and its second draw at most octave_chance
C34_SkippedTickKeepsOctave ==
    [][\A t \in 1..MaxScaleThreads : scale_pcs[t] = "tick" =>
          /\ \A note_rand \in RandomDraws, octave_rand \in RandomDraws :
                (note_rand > scale_args[t][1]
                 /\ scale_tick_drawn(t, note_rand, octave_rand))
                    => /\ scale_sent' = None
                       /\ current_octave' = current_octave
                       /\ scale_pcs'[t] = "sleep"
          /\ (scale_tick(t) /\ current_octave' # current_octave)
                => \E note_rand \in RandomDraws, octave_rand \in RandomDraws :
                      /\ note_rand <= scale_args[t][1]
                      /\ octave_rand <= scale_args[t][2]
                      /\ scale_tick_drawn(t, note_rand, octave_rand)]_vars

\* a tick was skipped after a tick that sent a note from a re-picked octave
C34_Witness ==
    /\ scale_sent = None
    /\ current_octave = 2
    /\ DOMAIN current_scale = {-1, 2}
    /\ scale_playback
    /\ \E t \in 1..MaxScaleThreads : scale_pcs[t] = "sleep" /\ scale_args[t][1] = 5

\* C36: at most one scale loop is alive at any time, whatever calls of
\* start_scale_playback and stop_scale_playback were made
C36_OneScaleLoop ==
    Cardinality({t \in 1..MaxScaleThreads : ScaleAlive(t)}) <= 1

\* C40: an apply_random_pattern_from_scale that fails, for a channel
\* outside 0..15, an empty scale or an octave without notes, leaves the
\* pattern of every channel as it was before the call
C40_FailedFillChangesNothing ==
    [][(last'.op = "apply_random_pattern_from_scale" /\ last'.raised # "none")
          => Stored' = Stored]_vars

\* C35: at most one playback thread is alive at any time, also when a
\* start() comes from a second caller after stop() has cleared running and
\* before the loop has seen it
C35_OnePlaybackLoop ==
    Cardinality({t \in 1..MaxThreads : Alive(t)}) <= 1

\* C32: the first message a master loop sends after start() is the start
\* message, and every clock message of the loop is sent after it: the loop
\* begins with the send of the start message, its messages begin with
\* "start", and it sends a clock message only after it has sent "start"
C32_StartBeforeClock ==
    /\ [](\A t \in 1..MaxClockThreads : clock_out[t] # <<>> => clock_out[t][1] = "start")
    /\ [][\A t \in 1..MaxClockThreads :
             /\ (clock_pcs[t] = "entry" /\ clock_pcs'[t] # "entry") => clock_pcs'[t] = "begin"
             /\ (clock_pcs[t] = "send" /\ clock_pcs'[t] = "handle")
                   => /\ clock_out[t] # <<>>
                      /\ clock_out[t][1] = "start"
                      /\ clock_out'[t] = <<"start", "clock">>]_vars

\* a master loop has sent the start message and two clock messages
C32_Witness ==
    /\ is_master
    /\ clock_running
    /\ pulse_count = 2
    /\ clock_thread # 0
    /\ clock_pcs[clock_thread] = "while"
    /\ clock_out[clock_thread] = <<"start", "clock">>

\* C33: a message of the input port is dispatched by its type only while
\* the clock runs as a slave: a clock message is handled as one pulse
\* (which a pulse at the very time of the one before ends early), a start
\* message resets pulse_count, current_beat and current_bar, a stop message
\* leaves the counters and the running flag as they are; while the clock
\* is stopped or is the master a message changes nothing of the clock
C33_MessagesDispatched ==
    [][\A type \in {"clock", "start", "stop"}, current_time \in MessageTimes :
          clock_message(type, current_time) =>
             IF clock_running /\ ~is_master
             THEN /\ type = "clock" =>
                        /\ HandlePulse(current_time)
                        /\ handled' = handled + 1 \/ current_time = last_pulse_time
                        /\ handled' = handled + 1 => pulse_count' = pulse_count + 1
                  /\ type = "start" =>
                        pulse_count' = 0 /\ current_beat' = 0 /\ current_bar' = 0
                  /\ type = "stop" =>
                        UNCHANGED <<pulse_count, current_beat, current_bar, clock_running>>
                  /\ UNCHANGED <<clock_mode_vars, clock_run_vars, clock_ctl>>
             ELSE UNCHANGED <<clock_mode_vars, clock_run_vars, clock_count_vars, tempo,
                              pulse_interval, last_pulse_time, clock_ctl, events>>]_vars

\* the slave clock has handled two pulses and then a stop message, and
\* its counters are those of the two pulses
C33_Witness ==
    /\ clock_running
    /\ ~is_master
    /\ inport # None
    /\ events = <<"stop">>
    /\ pulse_count = 2
    /\ handled = 2
    /\ tempo # CentiBpm(DefaultBpm)

\* C39: in master mode the handling of a pulse leaves tempo and
\* pulse_interval as they are, however many pulses were handled and
\* whatever the time between them: in master mode they change in a
\* set_tempo call only
C39_MasterTempoFixed ==
    [][is_master =>
          /\ handled' = handled + 1 => UNCHANGED <<tempo, pulse_interval>>
          /\ \A t \in 1..MaxClockThreads, current_time \in PulseTimes :
                clock_handle(t, current_time) => UNCHANGED <<tempo, pulse_interval>>
          /\ (tempo' # tempo \/ pulse_interval' # pulse_interval)
                => \E bpm_ \in TempoArgs : bpm_ > 0 /\ set_tempo(bpm_)]_vars

\* the master loop has handled two pulses some time apart, at the tempo a
\* set_tempo call gave
C39_Witness ==
    /\ is_master
    /\ clock_running
    /\ handled = 2
    /\ last_pulse_time > StartTime
    /\ tempo = CentiBpm(60)
    /\ pulse_interval = PulseInterval(CentiBpm(60))

\* C37: at most one source of clock pulses is active at any time; in
\* particular no two master loop threads are alive at the same time,
\* whatever calls of start, stop and set_master were made
C37_OnePulseSource ==
    Cardinality({t \in 1..MaxClockThreads : ClockAlive(t)}) <= 1

\* C38: whenever a call has left the clock running in slave mode, the
\* input port of the sync source is open with the handler attached
C38_RunningSlaveListens ==
    (clock_running /\ ~is_master /\ clock_ctl.pc = "idle")
        => (inport # None /\ inport = sync_source)

====
